---------------------------- MODULE Spec2Model ----------------------------
(***************************************************************************)
(* State-machine model of the synth.io native audio engine:                *)
(*   - Looper            (audio/Looper.h, audio/Looper.cpp)                *)
(*   - PolyphonyManager  (audio/PolyphonyManager.cpp, audio/Voice.cpp,     *)
(*                        audio/Envelope.cpp)                              *)
(*   - WurlitzerEngine   (audio/WurlitzerEngine.cpp, WurlitzerVoice.cpp)   *)
(*   - AudioEngine       (audio/AudioEngine.cpp) note routing and the      *)
(*                        per-frame backend selection of onAudioReady      *)
(*                                                                         *)
(* Floats are modelled by integers: an envelope level is a fixed-point     *)
(* number with One = 1.0, a track volume is counted in tenths, a time is   *)
(* counted in milliseconds.  The sample rate is scaled down (a model frame *)
(* stands for many source frames) so that whole loops and whole envelope   *)
(* contours fit in the explored state space.                               *)
(***************************************************************************)
EXTENDS Integers, Sequences, FiniteSets, TLC

(***************************************************************************)
(* Bounds of the model                                                     *)
(***************************************************************************)
\* Looper::mSampleRate in frames per second (the source runs at 48000).
LooperSampleRate == 5
\* Looper.cpp:33 multiplies by BARS_TO_RECORD, a name no file of src/ defines
\* (Looper.h has DEFAULT_BARS = 4 and a configurable bar count): bars per loop.
BARS_TO_RECORD == 1
\* The synth signal fed to Looper::process repeats with this period.
InputPeriod == 2
\* The history counter `calls` saturates here.
MaxCalls == 26
\* Number of voices of the PolyphonyManager (the source has 12).
MAX_POLYPHONY == 3
\* Number of voices of the WurlitzerEngine (the source has 12).
WURLI_MAX_VOICES == 2
\* Sample rate of the voices in frames per second (the source runs at 48000).
VoiceSampleRate == 4
\* noteOn is not issued once an age counter would pass this value.
MaxAge == 5
\* The history counter `quiet` saturates here.
MaxQuiet == 5
\* The history counters `held` and `released` saturate here.
MaxHeld == 20
\* numFrames of an onAudioReady call whose frames are told apart.
FramesPerBuffer == 2
\* DrumMachine::mSampleRate in frames per second (the source runs at 48000).
DrumSampleRate == 10
\* threads that may call AudioEngine::restart, and restarts that get through
NumRestartThreads == 3
MaxRestarts == 3
\* drum pattern calls with an invalid index that are counted
MaxBadCalls == 2

(***************************************************************************)
(* Program constants                                                       *)
(***************************************************************************)
MAX_TRACKS == 4
PRE_COUNT_BEATS == 4
BEATS_PER_BAR == 4
\* LoopTrack::volume = 0.7f, in tenths
DefaultVolume == 7
\* Looper::mBPM = 100.0f
DefaultBPM == 100
\* Looper::setBPM clamps to [30, 300]
MinBPM == 30
MaxBPM == 300
\* 1.0f as a fixed-point envelope level
EnvOne == 10000
\* PolyphonyManager::mAttack, mDecay, mRelease in milliseconds, mSustain in tenths
AttackMs == 10
DecayMs == 200
SustainTenths == 7
ReleaseMs == 300
\* Envelope::setAttack / setDecay / setRelease: at least 1 ms
MinEnvelopeMs == 1
\* PolyphonyManager::mUnisonVoices and the clamp of setUnisonVoices
\* PolyphonyManager.h:93, mFilterCutoff in Hz
DefaultFilterCutoff == 10000

DefaultUnisonVoices == 4
MinUnisonVoices == 1
MaxUnisonVoices == 8
\* PolyphonyManager::mUnisonDetune in cents
UnisonDetuneCents == 10
\* AudioEngine::noteOn(midiNote, frequency) plays the Wurlitzer at velocity 0.7f
DefaultVelocityTenths == 7
\* WurlitzerVoice::setupEnvelopes: the amp envelope releases in 0.35 s
WurliReleaseMs == 350
\* DrumMachine
NUM_INSTRUMENTS == 3
NUM_STEPS == 16
\* DrumMachine::setBPM clamps to [60, 200]
DrumMinBPM == 60
DrumMaxBPM == 200
\* 1.0f as a drum velocity or volume
DrumOne == 100
\* the frame counters that are compared with a fractional number of frames
\* per beat or per sixteenth count in units of 1 / TempoScale of a frame
TempoScale == 600
\* 1.0f as a sample of the output
SampleOne == 1000
\* AudioEngine::onAudioReady: SYNTH_GAIN 0.09 and DRUM_GAIN 1.08 in hundredths,
\* METRONOME_VOLUME 1.8 in tenths
SYNTH_GAIN == 9
DRUM_GAIN == 108
METRONOME_VOLUME == 18
\* AudioEngine::mSynthVolume = 0.7f and mMetronomeVolume = 0.3f, in tenths, and
\* the upper clamp of setMetronomeVolume
DefaultSynthVolume == 7
DefaultMetronomeVolume == 3
MaxMetronomeVolume == 20

VARIABLES
    \* ---- Looper (Looper.h:118-140) ----
    mState, mBPM, mSamplesPerBeat, mSamplesPerBar, mLoopLengthSamples,
    mLoopLengthLocked, mTracks, mActiveRecordingTrack, mRecordPosition,
    mPlaybackPosition, mPreCountPosition, mCurrentBeat, mCurrentBar,
    \* the out-parameters of the last Looper::process call, in tenths of a sample
    loopOutL, loopOutR,
    \* phase of the synth signal that the callback feeds to Looper::process
    synthPhase,
    \* "ok", or "overrun" once a write went past the end of a track vector
    mem,
    \* ---- history ----
    \* since: what the last control command was: "record" / "play" for an
    \*   accepted startRecordingTrack / startPlayback, "ignored" for a
    \*   startRecordingTrack or clearTrack of a valid track that the looper's
    \*   state made it reject, "other" for any other command.
    \* calls: while since is "record" or "play", the number of Looper::process
    \*   calls made since that command (saturates at MaxCalls); 0 otherwise.
    \* armed: while since is "record", the track that command started; else -1.
    \* fed: for each track, the <<synthL, synthR>> pairs passed to the
    \*   Looper::process calls made in recording since the track was last started.
    since, calls, armed, fed,
    \* ---- PolyphonyManager (PolyphonyManager.h:77-111) ----
    \* mVoices[i]: mState and mMidiNote of Voice, mStage and mCurrentLevel of
    \*   its amplitude Envelope, mDetune the cents last given to Voice::setDetune
    \*   (in hundredths of a cent)
    mVoices, mVoiceAge, mAgeCounter, mUnisonEnabled, mUnisonVoices, mUnisonNoteVoices,
    \* history: the notes of the noteOn calls made so far, while nothing but
    \*   noteOn calls with unison disabled, frames and parameter setters
    \*   happened; <<-1>> after anything else
    played,
    \* the manager's copy of the parameters (PolyphonyManager.h:93-101): mAttack
    \*   and mRelease in milliseconds, mFilterCutoff in Hz
    mAttack, mRelease, mFilterCutoff,
    \* history: the value of mAgeCounter when the last parameter setter
    \*   returned, -1 when none was called
    paramAge,
    \* ---- WurlitzerEngine (WurlitzerEngine.h, WurlitzerVoice.h) ----
    \* wVoices[i]: mActive and mMidiNote of WurlitzerVoice, stage and level of
    \*   its mAmpEnv
    wVoices, wVoiceAge, wAgeCounter,
    \* ---- AudioEngine ----
    mWurlitzerMode,
    \* the sum of the amplitude envelope levels of the voices rendered by the
    \*   last callback frame: 0 iff no voice contributed to synthL / synthR
    synthLevel,
    \* history: callback frames since the last AudioEngine::allNotesOff, -1 when
    \*   there was none or a noteOn came after it (saturates at MaxQuiet)
    quiet,
    \* ---- a Voice driven on its own (Voice.h) ----
    voice,
    \* history: Voice::nextSample calls since the last Voice::noteOn (-1 when
    \*   there was none), and since the last Voice::noteOff when no noteOn came
    \*   after it (-1 otherwise), both saturating at MaxHeld; heldLong: that
    \*   noteOff came more than attack + decay + release after the noteOn
    held, released, heldLong,
    \* ---- AudioEngine: mix settings, drum machine, metronome ----
    \* mSynthVolume and mMetronomeVolume in tenths
    mSynthVolume, mMetronomeVolume, mDrumEnabledByUser,
    \* mDrumMachine: a record of the fields of DrumMachine; velocities and
    \*   volumes in hundredths, mSampleCounter in 1 / TempoScale of a frame
    mDrumMachine,
    \* history: struck, the instruments whose pattern step was triggered on the
    \*   drum synth (DrumMachine::triggerSixteenth) while the looper was in
    \*   pre-count or recording, since the last callback frame
    struck,
    \* the static locals of onAudioReady; metroSampleCounter and
    \*   metroSamplesPerBeat in 1 / TempoScale of a frame
    metronomeWasActive, metroSampleCounter, metroBeat, metroSamplesPerBeat,
    \* history: whether the last callback frame triggered the metronome snare
    \*   after it took the drum synth sample, so that the click starts with the
    \*   next frame
    clickNext,
    \* ---- one onAudioReady call, frame by frame ----
    \* cbFrame: the loop index i of the call in progress, -1 outside a call
    \* output: the interleaved stereo buffer of the call, in 1 / SampleOne
    \* stored: history, the indices of output the call has stored to
    \* used: history, <<mWurlitzerMode, mSynthVolume, mMetronomeVolume>> as
    \*   read by each frame of the call
    cbFrame, output, stored, used,
    \* ---- AudioEngine::restart (AudioEngine.h:175, 193) ----
    \* mStream: "none" (null), "open" or "started"
    \* restartPc[t]: where thread t is inside restart(): "idle" (outside),
    \*   "stop", "create", "request" (the two halves of start()), "clear"
    \* startResult: what the last start() returned, "none" before the first
    \* history: bounced[t], the last restart() of thread t returned at the
    \*   compare-exchange; restarts, the number of restart() calls that got
    \*   past it
    mIsRestarting, mStream, restartPc, startResult, bounced, restarts,
    \* ---- a WurlitzerVoice driven on its own (WurlitzerVoice.h:39-84) ----
    \* wurliVoice: mActive, mMidiNote and mVelocity (in tenths), stage and level of
    \*   mAmpEnv, the attack and decay times given to the trigger of mAmpEnv and
    \*   the decay times given to mBarkEnv, mHarmonicEnv and mTineEnv (in tenths
    \*   of a millisecond), mBarkIntensity and the three harmonic levels (in
    \*   thousandths)
    \* history: wGiven, the velocity of the last WurlitzerVoice::noteOn in
    \*   tenths as a one-element sequence, <<>> before the first
    wurliVoice, wGiven,
    \* ---- a DrumMachine driven on its own (DrumMachine.h) ----
    \* drum: a record of the fields of DrumMachine, as mDrumMachine
    \* history: toggleRun, <<>> unless the last call was a toggleStep of a valid
    \*   instrument and step; else <<instrument, step, v, n>>: the last n calls
    \*   (n is 1 or 2) were toggleStep(instrument, step) and the velocity of
    \*   that step was v before them
    drum, toggleRun,
    \* ---- Looper::process step by step (Looper.cpp:324-349) ----
    \* procTrack: the track whose bounds check the callback has passed in the
    \*   mixing loop of case PLAYING and whose buffers it has not read yet; -1
    \*   when the callback is not between a check and its access
    procTrack,
    \* history: the number of setDrumStep, toggleDrumStep and
    \*   setDrumInstrumentVolume calls made with an invalid instrument or step
    \*   (saturates at MaxBadCalls)
    badCalls

looperVars == <<mState, mBPM, mSamplesPerBeat, mSamplesPerBar, mLoopLengthSamples,
                mLoopLengthLocked, mTracks, mActiveRecordingTrack, mRecordPosition,
                mPlaybackPosition, mPreCountPosition, mCurrentBeat, mCurrentBar>>
looperIO == <<loopOutL, loopOutR, synthPhase, mem>>
history == <<since, calls, armed, fed>>

polyVars == <<mVoices, mVoiceAge, mAgeCounter, mUnisonEnabled, mUnisonVoices,
              mUnisonNoteVoices, played>>
wurliVars == <<wVoices, wVoiceAge, wAgeCounter>>
engineVars == <<mWurlitzerMode, synthLevel, quiet>>
voiceVars == <<voice, held, released, heldLong>>

mixVars == <<mSynthVolume, mMetronomeVolume, mDrumEnabledByUser>>
metroVars == <<metronomeWasActive, metroSampleCounter, metroBeat, metroSamplesPerBeat,
               clickNext>>
callbackVars == <<cbFrame, output, stored, used>>

\* the components that are driven on their own
paramVars == <<mAttack, mRelease, mFilterCutoff, paramAge>>
restartVars == <<mIsRestarting, mStream, restartPc, startResult, bounced, restarts>>
\* the parts of the engine that the note, looper and callback paths never touch
wurliUnitVars == <<wurliVoice, wGiven>>
drumUnitVars == <<drum, toggleRun>>
hostVars == <<restartVars, badCalls, wurliUnitVars, drumUnitVars, procTrack>>
unitVars == <<voiceVars, paramVars, hostVars>>
\* the rest of the AudioEngine
deskVars == <<mixVars, mDrumMachine, struck, metroVars, callbackVars>>

\* what a command of the looper leaves alone, and what one of the
\* PolyphonyManager does
synthVars == <<polyVars, wurliVars, engineVars, unitVars, deskVars>>
notPolyVars == <<looperVars, looperIO, history, wurliVars, engineVars, unitVars,
                 deskVars>>
notVoiceVars == <<looperVars, looperIO, history, polyVars, wurliVars, engineVars,
                  paramVars, hostVars, deskVars>>

vars == <<looperVars, looperIO, history, polyVars, wurliVars, engineVars, unitVars,
          deskVars>>

(***************************************************************************)
(* Helpers                                                                 *)
(***************************************************************************)
Min(a, b) == IF a < b THEN a ELSE b
Max(a, b) == IF a > b THEN a ELSE b
Zeros(n) == [i \in 1..n |-> 0]

RECURSIVE SumOver(_, _)
SumOver(f, S) ==
    IF S = {} THEN 0
    ELSE LET x == CHOOSE y \in S : TRUE IN f[x] + SumOver(f, S \ {x})

(***************************************************************************)
(* Looper                                                                  *)
(***************************************************************************)
Tracks == 0..(MAX_TRACKS - 1)
\* track indices the callers of the model pass: two valid tracks and the two
\* invalid indices next to the valid range
TrackArgs == {-1, 0, 1, MAX_TRACKS}
\* tempi a caller may pass (400 is out of range and is clamped)
BPMArgs == {300, 400}

EmptyTrack == [bufferL |-> <<>>, bufferR |-> <<>>, hasContent |-> FALSE,
               volume |-> DefaultVolume, muted |-> FALSE, solo |-> FALSE]

isValidTrackIndex(index) == index >= 0 /\ index < MAX_TRACKS

hasAnyLoopIn(tracks) == \E i \in Tracks : tracks[i].hasContent
hasAnyLoop == hasAnyLoopIn(mTracks)

anySolo == \E i \in Tracks : mTracks[i].hasContent /\ mTracks[i].solo

\* The samples the callback passes as synthL / synthR at the current frame,
\* in tenths: the rendered synth signal, p + 1 on the left and its negative on
\* the right, times mSynthVolume (AudioEngine.cpp:734-741).
InputL(p) == (p + 1) * mSynthVolume
InputR(p) == (0 - (p + 1)) * mSynthVolume

\* Looper::updateTiming for a tempo: <<samplesPerBeat, samplesPerBar, loopLength>>
SamplesPerBeatOf(bpm) == (60 * LooperSampleRate) \div bpm
LoopLengthOf(bpm) == SamplesPerBeatOf(bpm) * BEATS_PER_BAR * BARS_TO_RECORD

ClampBPM(bpm) == Max(MinBPM, Min(MaxBPM, bpm))

\* Looper::updateTiming, as a relation on the timing fields
updateTiming(bpm) ==
    /\ mSamplesPerBeat' = SamplesPerBeatOf(bpm)
    /\ mSamplesPerBar' = SamplesPerBeatOf(bpm) * BEATS_PER_BAR
    /\ mLoopLengthSamples' = IF mLoopLengthLocked THEN mLoopLengthSamples
                             ELSE LoopLengthOf(bpm)

\* history bookkeeping of a control command
Command(kind, track) ==
    /\ since' = kind
    /\ calls' = 0
    /\ armed' = IF kind = "record" THEN track ELSE -1

\* the model does not follow the program past undefined behaviour
Running == mem = "ok"

\* Looper::setBPM
Looper_setBPM(bpm) ==
    /\ Running
    /\ mBPM' = ClampBPM(bpm)
    /\ updateTiming(ClampBPM(bpm))
    /\ UNCHANGED <<mState, mLoopLengthLocked, mTracks, mActiveRecordingTrack,
                   mRecordPosition, mPlaybackPosition, mPreCountPosition,
                   mCurrentBeat, mCurrentBar>>
    /\ UNCHANGED <<looperIO, fed>>
    /\ Command("other", -1)

\* Looper::setBPM called on a looper that is driven directly
setBPM(bpm) == Looper_setBPM(bpm) /\ UNCHANGED synthVars

\* a plausible slip: the hasContent check is missing
startRecordingRejected_noContentCheck(trackIndex) ==
    \/ ~isValidTrackIndex(trackIndex)
    \/ mState \in {"RECORDING", "PRE_COUNT"}

\* the three early returns of Looper::startRecordingTrack
startRecordingRejected(trackIndex) ==
    \/ ~isValidTrackIndex(trackIndex)
    \/ mTracks[trackIndex].hasContent
    \/ mState \in {"RECORDING", "PRE_COUNT"}

startRecordingTrack(trackIndex) ==
    /\ Running
    /\ IF startRecordingRejected(trackIndex)
       THEN UNCHANGED looperVars
       ELSE /\ IF ~mLoopLengthLocked
               THEN updateTiming(mBPM)
               ELSE UNCHANGED <<mSamplesPerBeat, mSamplesPerBar, mLoopLengthSamples>>
            /\ mTracks' = [mTracks EXCEPT
                              ![trackIndex].bufferL = Zeros(mLoopLengthSamples'),
                              ![trackIndex].bufferR = Zeros(mLoopLengthSamples')]
            /\ mActiveRecordingTrack' = trackIndex
            /\ mState' = "PRE_COUNT"
            /\ mPreCountPosition' = 0
            /\ mRecordPosition' = 0
            /\ mCurrentBeat' = 0
            /\ mCurrentBar' = 0
            /\ UNCHANGED <<mBPM, mLoopLengthLocked, mPlaybackPosition>>
    /\ UNCHANGED looperIO
    /\ fed' = IF startRecordingRejected(trackIndex) THEN fed
              ELSE [fed EXCEPT ![trackIndex] = <<>>]
    /\ UNCHANGED synthVars
    /\ Command(IF ~isValidTrackIndex(trackIndex) THEN "other"
               ELSE IF startRecordingRejected(trackIndex) THEN "ignored"
               ELSE "record", trackIndex)

stopPlayback ==
    /\ Running
    /\ IF mState = "PLAYING"
       THEN /\ mState' = "STOPPED"
            /\ mPlaybackPosition' = 0
       ELSE UNCHANGED <<mState, mPlaybackPosition>>
    /\ UNCHANGED <<mBPM, mSamplesPerBeat, mSamplesPerBar, mLoopLengthSamples,
                   mLoopLengthLocked, mTracks, mActiveRecordingTrack,
                   mRecordPosition, mPreCountPosition, mCurrentBeat, mCurrentBar>>
    /\ UNCHANGED <<looperIO, fed>>
    /\ UNCHANGED synthVars
    /\ Command("other", -1)

\* Looper::startPlayback
Looper_startPlayback ==
    /\ Running
    /\ IF hasAnyLoop /\ mState = "STOPPED"
       THEN /\ mState' = "PLAYING"
            /\ mPlaybackPosition' = 0
            /\ mCurrentBeat' = 0
            /\ mCurrentBar' = 0
       ELSE UNCHANGED <<mState, mPlaybackPosition, mCurrentBeat, mCurrentBar>>
    /\ UNCHANGED <<mBPM, mSamplesPerBeat, mSamplesPerBar, mLoopLengthSamples,
                   mLoopLengthLocked, mTracks, mActiveRecordingTrack,
                   mRecordPosition, mPreCountPosition>>
    /\ UNCHANGED <<looperIO, fed>>
    /\ Command(IF hasAnyLoop /\ mState = "STOPPED" THEN "play" ELSE "other", -1)

\* Looper::startPlayback called on a looper that is driven directly
startPlayback == Looper_startPlayback /\ UNCHANGED synthVars

\* the two early returns of Looper::clearTrack
clearTrackRejected(trackIndex) ==
    \/ ~isValidTrackIndex(trackIndex)
    \/ /\ mActiveRecordingTrack = trackIndex
       /\ mState \in {"PRE_COUNT", "RECORDING"}

\* Looper::clearTrack without the reset of Looper.cpp:150-155
clearTrack_keepsState(trackIndex) ==
    /\ Running
    /\ IF clearTrackRejected(trackIndex)
       THEN UNCHANGED looperVars
       ELSE /\ mTracks' = [mTracks EXCEPT ![trackIndex] = EmptyTrack]
            /\ IF FALSE
               THEN /\ mState' = "IDLE"
                    /\ mLoopLengthLocked' = FALSE
                    /\ mPlaybackPosition' = 0
               ELSE UNCHANGED <<mState, mLoopLengthLocked, mPlaybackPosition>>
            /\ UNCHANGED <<mBPM, mSamplesPerBeat, mSamplesPerBar, mLoopLengthSamples,
                           mActiveRecordingTrack, mRecordPosition, mPreCountPosition,
                           mCurrentBeat, mCurrentBar>>
    /\ UNCHANGED looperIO
    /\ fed' = IF clearTrackRejected(trackIndex) THEN fed
              ELSE [fed EXCEPT ![trackIndex] = <<>>]
    /\ UNCHANGED synthVars
    /\ Command(IF isValidTrackIndex(trackIndex) /\ clearTrackRejected(trackIndex)
               THEN "ignored" ELSE "other", -1)

\* Looper::clearTrack
clearTrack(trackIndex) ==
    /\ Running
    /\ IF clearTrackRejected(trackIndex)
       THEN UNCHANGED looperVars
       ELSE /\ mTracks' = [mTracks EXCEPT ![trackIndex] = EmptyTrack]
            /\ IF ~hasAnyLoopIn(mTracks')
               THEN /\ mState' = "IDLE"
                    /\ mLoopLengthLocked' = FALSE
                    /\ mPlaybackPosition' = 0
               ELSE UNCHANGED <<mState, mLoopLengthLocked, mPlaybackPosition>>
            /\ UNCHANGED <<mBPM, mSamplesPerBeat, mSamplesPerBar, mLoopLengthSamples,
                           mActiveRecordingTrack, mRecordPosition, mPreCountPosition,
                           mCurrentBeat, mCurrentBar>>
    /\ UNCHANGED looperIO
    /\ fed' = IF clearTrackRejected(trackIndex) THEN fed
              ELSE [fed EXCEPT ![trackIndex] = <<>>]
    /\ UNCHANGED synthVars
    /\ Command(IF isValidTrackIndex(trackIndex) /\ clearTrackRejected(trackIndex)
               THEN "ignored" ELSE "other", -1)

\* Looper::clearAllTracks
Looper_clearAllTracks ==
    /\ Running
    /\ mTracks' = [i \in Tracks |-> EmptyTrack]
    /\ mState' = "IDLE"
    /\ mActiveRecordingTrack' = -1
    /\ mLoopLengthLocked' = FALSE
    /\ mPlaybackPosition' = 0
    /\ mRecordPosition' = 0
    /\ mCurrentBeat' = 0
    /\ mCurrentBar' = 0
    /\ UNCHANGED <<mBPM, mSamplesPerBeat, mSamplesPerBar, mLoopLengthSamples,
                   mPreCountPosition>>
    /\ UNCHANGED looperIO
    /\ fed' = [i \in Tracks |-> <<>>]
    /\ Command("other", -1)

\* Looper::clearAllTracks called on a looper that is driven directly
clearAllTracks == Looper_clearAllTracks /\ UNCHANGED synthVars


\* Looper::updateBeatBar for a position: <<beat, bar>>; the counters are left
\* alone when mSamplesPerBeat <= 0
BeatBarOf(position, beat, bar) ==
    IF mSamplesPerBeat <= 0 THEN <<beat, bar>>
    ELSE LET totalBeats == position \div mSamplesPerBeat
         IN <<totalBeats % BEATS_PER_BAR, totalBeats \div BEATS_PER_BAR>>

\* a plausible slip: solo is ignored
Audible_noSolo(i, skip) ==
    /\ i # skip
    /\ mTracks[i].hasContent
    /\ ~mTracks[i].muted

\* Whether track i is mixed into the loop output (Looper.cpp:241-243, 294-297,
\* 329-331); `skip` is the track being recorded, or -1
Audible(i, skip) ==
    /\ i # skip
    /\ mTracks[i].hasContent
    /\ ~mTracks[i].muted
    /\ (anySolo => mTracks[i].solo)

\* a plausible slip: the mix reads one sample ahead
MixAt_ahead(pos, skip, chan) ==
    LET contrib == [i \in Tracks |->
                      IF Audible(i, skip) /\ pos + 1 < Len(mTracks[i][chan])
                      THEN mTracks[i][chan][pos + 2] * mTracks[i].volume
                      ELSE 0]
    IN SumOver(contrib, Tracks)

\* One channel of the mix at position pos: every audible track whose buffer
\* reaches pos adds buffer[pos] * volume
MixAt(pos, skip, chan) ==
    LET contrib == [i \in Tracks |->
                      IF Audible(i, skip) /\ pos < Len(mTracks[i][chan])
                      THEN mTracks[i][chan][pos + 1] * mTracks[i].volume
                      ELSE 0]
    IN SumOver(contrib, Tracks)

Frame ==
    /\ synthPhase' = (synthPhase + 1) % InputPeriod
    /\ since' = since
    /\ armed' = armed
    /\ fed' = IF mState = "RECORDING" /\ mem' = "ok"
              THEN [fed EXCEPT ![mActiveRecordingTrack] =
                       Append(@, <<InputL(synthPhase), InputR(synthPhase)>>)]
              ELSE fed
    /\ calls' = IF since \in {"record", "play"} THEN Min(calls + 1, MaxCalls) ELSE 0

\* a plausible slip: the wrap of the playback position is missing
PreCountWraps_never(advanced) == FALSE

\* Looper.cpp:254, the wrap of the playback position during pre-count
PreCountWraps(advanced) ==
    mLoopLengthSamples > 0 /\ advanced >= mLoopLengthSamples

\* a plausible slip: > for >=, the pre-count lasts one frame more
PreCountDone_late(pre) == pre > mSamplesPerBeat * PRE_COUNT_BEATS

\* Looper.cpp:268, "pre-count is complete"
PreCountDone(pre) == pre >= mSamplesPerBeat * PRE_COUNT_BEATS

\* a plausible slip: > for >=, the recording lasts one frame more
RecordingDone_late(rec) == rec > mLoopLengthSamples

\* Looper.cpp:309, "recording is complete"
RecordingDone(rec) == rec >= mLoopLengthSamples

\* a plausible slip: > for >=, the position reaches mLoopLengthSamples
PlaybackWraps_late(pos) == pos > mLoopLengthSamples

\* Looper.cpp:343, "loop back to start"
PlaybackWraps(pos) == pos >= mLoopLengthSamples

\* Looper.cpp:259-280, the beats that the pre-count frame made in this state
\* passes to the state callback through notifyStateChange: the beat of the
\* advanced pre-count position when it differs from mCurrentBeat, and then 0
\* when the pre-count is complete
PreCountNotified ==
    LET pre1 == mPreCountPosition + 1
        beatInPreCount == pre1 \div mSamplesPerBeat
    IN IF mState # "PRE_COUNT" THEN {}
       ELSE (IF beatInPreCount # mCurrentBeat THEN {beatInPreCount} ELSE {})
            \cup (IF PreCountDone(pre1) THEN {0} ELSE {})

\* Looper::process, case State::PRE_COUNT
processPreCount ==
    LET playing == hasAnyLoop
        advanced == mPlaybackPosition + 1
        pos1 == IF ~playing THEN mPlaybackPosition
                ELSE IF PreCountWraps(advanced) THEN 0 ELSE advanced
        pre1 == mPreCountPosition + 1
        beatInPreCount == pre1 \div mSamplesPerBeat
        done == PreCountDone(pre1)
    IN /\ mState = "PRE_COUNT"
       /\ loopOutL' = IF playing THEN MixAt(mPlaybackPosition, -1, "bufferL") ELSE 0
       /\ loopOutR' = IF playing THEN MixAt(mPlaybackPosition, -1, "bufferR") ELSE 0
       /\ mPreCountPosition' = pre1
       /\ IF done
          THEN /\ mState' = "RECORDING"
               /\ mRecordPosition' = 0
               /\ mCurrentBeat' = 0
               /\ mCurrentBar' = 0
               /\ mPlaybackPosition' = 0
          ELSE /\ mCurrentBeat' = beatInPreCount
               /\ mPlaybackPosition' = pos1
               /\ UNCHANGED <<mState, mRecordPosition, mCurrentBar>>
       /\ UNCHANGED <<mBPM, mSamplesPerBeat, mSamplesPerBar, mLoopLengthSamples,
                      mLoopLengthLocked, mTracks, mActiveRecordingTrack, mem>>

\* Looper::process, case State::RECORDING.  The write is guarded by
\* mRecordPosition < mLoopLengthSamples only: past the end of the vector it is
\* undefined behaviour, recorded in mem; the model stops there.
processRecording ==
    LET t == mActiveRecordingTrack
        writes == isValidTrackIndex(t) /\ mRecordPosition < mLoopLengthSamples
        inBounds == mRecordPosition < Len(mTracks[t].bufferL)
        written == IF writes /\ inBounds
                   THEN [mTracks EXCEPT
                           ![t].bufferL[mRecordPosition + 1] = InputL(synthPhase),
                           ![t].bufferR[mRecordPosition + 1] = InputR(synthPhase)]
                   ELSE mTracks
        rec1 == mRecordPosition + 1
        bb == BeatBarOf(rec1, mCurrentBeat, mCurrentBar)
        done == RecordingDone(rec1)
    IN /\ mState = "RECORDING"
       /\ IF writes /\ ~inBounds
          THEN /\ mem' = "overrun"
               /\ UNCHANGED <<looperVars, loopOutL, loopOutR>>
          ELSE /\ mem' = mem
               /\ loopOutL' = MixAt(mRecordPosition, t, "bufferL")
               /\ loopOutR' = MixAt(mRecordPosition, t, "bufferR")
               /\ mRecordPosition' = rec1
               /\ IF done
                  THEN /\ mTracks' = [written EXCEPT ![t].hasContent = TRUE]
                       /\ mLoopLengthLocked' = TRUE
                       /\ mState' = "STOPPED"
                       /\ mActiveRecordingTrack' = -1
                       /\ mPlaybackPosition' = 0
                       /\ mCurrentBeat' = 0
                       /\ mCurrentBar' = 0
                  ELSE /\ mTracks' = written
                       /\ mCurrentBeat' = bb[1]
                       /\ mCurrentBar' = bb[2]
                       /\ UNCHANGED <<mLoopLengthLocked, mState, mActiveRecordingTrack,
                                      mPlaybackPosition>>
               /\ UNCHANGED <<mBPM, mSamplesPerBeat, mSamplesPerBar,
                              mLoopLengthSamples, mPreCountPosition>>

\* the body of case State::PLAYING of Looper::process
PlayingBody ==
    LET pos1 == mPlaybackPosition + 1
        bb == BeatBarOf(pos1, mCurrentBeat, mCurrentBar)
        wraps == PlaybackWraps(pos1)
    IN /\ loopOutL' = MixAt(mPlaybackPosition, -1, "bufferL")
       /\ loopOutR' = MixAt(mPlaybackPosition, -1, "bufferR")
       /\ mPlaybackPosition' = IF wraps THEN 0 ELSE pos1
       /\ mCurrentBeat' = IF wraps THEN 0 ELSE bb[1]
       /\ mCurrentBar' = IF wraps THEN 0 ELSE bb[2]
       /\ UNCHANGED <<mState, mBPM, mSamplesPerBeat, mSamplesPerBar,
                      mLoopLengthSamples, mLoopLengthLocked, mTracks,
                      mActiveRecordingTrack, mRecordPosition, mPreCountPosition, mem>>

\* Looper::process, case State::PLAYING
processPlaying == mState = "PLAYING" /\ PlayingBody

\* Looper::process, cases State::IDLE and State::STOPPED
processIdle ==
    /\ mState \in {"IDLE", "STOPPED"}
    /\ loopOutL' = 0
    /\ loopOutR' = 0
    /\ UNCHANGED <<looperVars, mem>>

\* Looper::process(synthL, synthR, loopOutL, loopOutR), one callback frame
Looper_process ==
    /\ Running
    /\ \/ processPreCount
       \/ processRecording
       \/ processPlaying
       \/ processIdle
    /\ Frame

\* Looper::process called on a looper that is driven directly
process == Looper_process /\ UNCHANGED synthVars

\* what a track control leaves alone
notTrackVars == <<mState, mBPM, mSamplesPerBeat, mSamplesPerBar, mLoopLengthSamples,
                  mLoopLengthLocked, mActiveRecordingTrack, mRecordPosition,
                  mPlaybackPosition, mPreCountPosition, mCurrentBeat, mCurrentBar,
                  looperIO, fed>>

\* a plausible slip: the index is not checked (a track outside the array is
\* not a track of the model, so the write lands on track 0)
TrackIndexChecked_not(trackIndex) == TRUE

\* the guard of the three track controls
TrackIndexChecked(trackIndex) == isValidTrackIndex(trackIndex)

\* the track a control writes to
TrackSlot(trackIndex) == IF isValidTrackIndex(trackIndex) THEN trackIndex ELSE 0

\* Looper::setTrackVolume, the volume in tenths
setTrackVolume(trackIndex, volume) ==
    /\ Running
    /\ mTracks' = IF TrackIndexChecked(trackIndex)
                  THEN [mTracks EXCEPT ![TrackSlot(trackIndex)].volume =
                                          Max(0, Min(10, volume))]
                  ELSE mTracks
    /\ Command("other", -1)
    /\ UNCHANGED notTrackVars
    /\ UNCHANGED synthVars

\* Looper::setTrackMuted
setTrackMuted(trackIndex, muted) ==
    /\ Running
    /\ mTracks' = IF TrackIndexChecked(trackIndex)
                  THEN [mTracks EXCEPT ![TrackSlot(trackIndex)].muted = muted]
                  ELSE mTracks
    /\ Command("other", -1)
    /\ UNCHANGED notTrackVars
    /\ UNCHANGED synthVars

\* Looper::setTrackSolo
setTrackSolo(trackIndex, solo) ==
    /\ Running
    /\ mTracks' = IF TrackIndexChecked(trackIndex)
                  THEN [mTracks EXCEPT ![TrackSlot(trackIndex)].solo = solo]
                  ELSE mTracks
    /\ Command("other", -1)
    /\ UNCHANGED notTrackVars
    /\ UNCHANGED synthVars

LooperInit ==
    /\ mState = "IDLE"
    /\ mBPM = DefaultBPM
    /\ mSamplesPerBeat = SamplesPerBeatOf(DefaultBPM)
    /\ mSamplesPerBar = SamplesPerBeatOf(DefaultBPM) * BEATS_PER_BAR
    /\ mLoopLengthSamples = LoopLengthOf(DefaultBPM)
    /\ mLoopLengthLocked = FALSE
    /\ mTracks = [i \in Tracks |-> EmptyTrack]
    /\ mActiveRecordingTrack = -1
    /\ mRecordPosition = 0
    /\ mPlaybackPosition = 0
    /\ mPreCountPosition = 0
    /\ mCurrentBeat = 0
    /\ mCurrentBar = 0
    /\ loopOutL = 0
    /\ loopOutR = 0
    /\ synthPhase = 0
    /\ mem = "ok"
    /\ since = "other"
    /\ calls = 0
    /\ armed = -1
    /\ fed = [i \in Tracks |-> <<>>]

LooperNext ==
    \/ \E bpm \in BPMArgs : setBPM(bpm)
    \/ \E t \in TrackArgs : startRecordingTrack(t)
    \/ \E t \in TrackArgs : clearTrack(t)
    \/ clearAllTracks
    \/ startPlayback
    \/ stopPlayback
    \/ process

\* the arguments of the track controls when two tracks are mixed: both can be
\* soloed, track 0 can be muted, track 1 can be turned down to 0.5
MixTrackArgs == {0, 1}
MuteTrackArgs == {0}
VolumeTrackArgs == {1}
TrackVolumeArgs == {5}

\* two tracks are recorded and played while their controls are changed
MixNext ==
    \/ \E t \in MixTrackArgs : startRecordingTrack(t)
    \/ startPlayback
    \/ \E t \in VolumeTrackArgs, v \in TrackVolumeArgs : setTrackVolume(t, v)
    \/ \E t \in MuteTrackArgs, m \in BOOLEAN : setTrackMuted(t, m)
    \/ \E t \in MixTrackArgs, b \in BOOLEAN : setTrackSolo(t, b)
    \/ process

\* two tracks are recorded, cleared and played at one tempo: no setBPM and no
\* clearAllTracks
CompleteNext ==
    \/ \E t \in MixTrackArgs : startRecordingTrack(t)
    \/ \E t \in MixTrackArgs : clearTrack(t)
    \/ startPlayback
    \/ stopPlayback
    \/ \E t \in MuteTrackArgs, m \in BOOLEAN : setTrackMuted(t, m)
    \/ process

(***************************************************************************)
(* Envelope and Voice (audio/Envelope.cpp, audio/Voice.cpp)                *)
(***************************************************************************)
Voices == 0..(MAX_POLYPHONY - 1)

\* the notes given to noteOn and noteOff: one more than there are voices
NoteArgs == 60..(60 + MAX_POLYPHONY)

\* the argument given to setUnisonVoices
UnisonVoicesArgs == {2}

\* Envelope::calculateRate with the floor of setAttack / setDecay / setRelease:
\* the increment per frame, 1 / (time * sampleRate)
calculateRate(timeMs) ==
    (EnvOne * 1000) \div (Max(MinEnvelopeMs, timeMs) * VoiceSampleRate)

\* PolyphonyManager::mSustain as an envelope level
mSustainLevel == (SustainTenths * EnvOne) \div 10

\* a Voice of the PolyphonyManager once its constructor has run
\* applyParamsToVoice (Voice.h:95, Voice.h:108, Envelope.h:44-45,
\* PolyphonyManager.cpp:7-10): mAttackTime, mDecayTime and mReleaseTime of the
\* amplitude Envelope in milliseconds, mSustainLevel as a level,
\* mFilterBaseCutoff in Hz
IdleVoice == [mState |-> "IDLE", mMidiNote |-> -1, mStage |-> "IDLE",
              mCurrentLevel |-> 0, mDetune |-> 0,
              mAttackTime |-> AttackMs, mDecayTime |-> DecayMs,
              mSustainLevel |-> mSustainLevel, mReleaseTime |-> ReleaseMs,
              mFilterBaseCutoff |-> DefaultFilterCutoff]

\* Voice::setAttack / setDecay / setRelease, that is Envelope::setAttack /
\* setDecay / setRelease: at least 1 ms
Voice_setAttack(v, timeMs) == [v EXCEPT !.mAttackTime = Max(MinEnvelopeMs, timeMs)]
Voice_setDecay(v, timeMs) == [v EXCEPT !.mDecayTime = Max(MinEnvelopeMs, timeMs)]
Voice_setRelease(v, timeMs) == [v EXCEPT !.mReleaseTime = Max(MinEnvelopeMs, timeMs)]

\* Voice::setSustain, that is Envelope::setSustain: clamped to [0, 1]
Voice_setSustain(v, level) == [v EXCEPT !.mSustainLevel = Max(0, Min(EnvOne, level))]

\* Voice::setFilterCutoff
Voice_setFilterCutoff(v, cutoffHz) == [v EXCEPT !.mFilterBaseCutoff = cutoffHz]

\* a plausible slip: the gate restarts the attack from 0
Envelope_gate_reset(v, isOn) ==
    IF isOn THEN [v EXCEPT !.mStage = "ATTACK", !.mCurrentLevel = 0]
    ELSE IF v.mStage # "IDLE" THEN [v EXCEPT !.mStage = "RELEASE"]
    ELSE v

\* Envelope::gate
Envelope_gate(v, isOn) ==
    IF isOn THEN [v EXCEPT !.mStage = "ATTACK"]
    ELSE IF v.mStage # "IDLE" THEN [v EXCEPT !.mStage = "RELEASE"]
    ELSE v

\* a plausible slip: the release falls at half the rate
ReleaseFall_slow(v) == v.mCurrentLevel - calculateRate(v.mReleaseTime) \div 2

\* Envelope.cpp:88, the level after one frame of the release
ReleaseFall(v) == v.mCurrentLevel - calculateRate(v.mReleaseTime)

\* Envelope::nextSample: the stage machine, then the clamp to [0, 1]
Envelope_nextSample(v) ==
    LET up == v.mCurrentLevel + calculateRate(v.mAttackTime)
        excess == v.mCurrentLevel - v.mSustainLevel + EnvOne \div 1000
        \* mDecayRate * excess; a rate of 1.0 or more takes at least the whole
        \* excess, which ends the decay whatever the product is
        leak == IF calculateRate(v.mDecayTime) >= EnvOne THEN excess
                ELSE (calculateRate(v.mDecayTime) * excess) \div EnvOne
        down == v.mCurrentLevel - leak
        fall == ReleaseFall(v)
        clamp(x) == Max(0, Min(EnvOne, x))
    IN CASE v.mStage = "IDLE" -> [v EXCEPT !.mCurrentLevel = 0]
         [] v.mStage = "ATTACK" ->
              IF up >= EnvOne
              THEN [v EXCEPT !.mCurrentLevel = EnvOne, !.mStage = "DECAY"]
              ELSE [v EXCEPT !.mCurrentLevel = clamp(up)]
         [] v.mStage = "DECAY" ->
              IF down <= v.mSustainLevel + EnvOne \div 10000
              THEN [v EXCEPT !.mCurrentLevel = v.mSustainLevel, !.mStage = "SUSTAIN"]
              ELSE [v EXCEPT !.mCurrentLevel = clamp(down)]
         [] v.mStage = "SUSTAIN" -> [v EXCEPT !.mCurrentLevel = v.mSustainLevel]
         [] v.mStage = "RELEASE" ->
              IF fall <= 0
              THEN [v EXCEPT !.mCurrentLevel = 0, !.mStage = "IDLE"]
              ELSE [v EXCEPT !.mCurrentLevel = clamp(fall)]

\* Voice::isActive
isActive(v) == v.mState # "IDLE"

\* Voice::noteOn
Voice_noteOn(v, midiNote) ==
    [Envelope_gate(v, TRUE) EXCEPT !.mMidiNote = midiNote, !.mState = "ACTIVE"]

\* Voice::noteOff
Voice_noteOff(v) == [Envelope_gate(v, FALSE) EXCEPT !.mState = "RELEASING"]

\* Voice::setDetune, the cents kept in hundredths
Voice_setDetune(v, cents) == [v EXCEPT !.mDetune = cents]

\* Voice::nextSample: advances the envelope of a non-idle voice and frees the
\* voice when the envelope has ended
Voice_nextSample(v) ==
    IF v.mState = "IDLE" THEN v
    ELSE LET e == Envelope_nextSample(v)
         IN IF e.mStage = "IDLE"
            THEN [e EXCEPT !.mState = "IDLE", !.mMidiNote = -1]
            ELSE e

\* --- one Voice driven directly, with envelope settings made before the
\* --- first note
\* the attack, decay and release times in milliseconds and the sustain levels
\* given to the setters (0 is raised to 1 ms, 12000 is clamped to 1.0)
TimeArgs == {0, 250, 500}
ReleaseArgs == {0, 250, 1000, 2000}
SustainArgs == {0, EnvOne \div 2, 12000}

\* attack + decay + release of a voice, in frames times 1000
EnvelopeSpan(v) == (v.mAttackTime + v.mDecayTime + v.mReleaseTime) * VoiceSampleRate

Solo_noteOn(midiNote) ==
    /\ voice' = Voice_noteOn(voice, midiNote)
    /\ held' = 0
    /\ released' = -1
    /\ heldLong' = FALSE
    /\ UNCHANGED notVoiceVars

Solo_noteOff ==
    /\ voice' = Voice_noteOff(voice)
    /\ released' = 0
    /\ heldLong' = (held >= 0 /\ held * 1000 > EnvelopeSpan(voice))
    /\ UNCHANGED held
    /\ UNCHANGED notVoiceVars

Solo_nextSample ==
    /\ voice' = Voice_nextSample(voice)
    /\ held' = IF held < 0 THEN -1 ELSE Min(held + 1, MaxHeld)
    /\ released' = IF released < 0 THEN -1 ELSE Min(released + 1, MaxHeld)
    /\ UNCHANGED heldLong
    /\ UNCHANGED notVoiceVars

\* a Voice as constructed and left alone
VoiceInit ==
    /\ voice = IdleVoice
    /\ held = -1
    /\ released = -1
    /\ heldLong = FALSE

\* a Voice after setAttack, setDecay, setSustain and setRelease
VoiceInitSet ==
    /\ voice \in {Voice_setRelease(Voice_setSustain(Voice_setDecay(
                       Voice_setAttack(IdleVoice, a), d), s), r) :
                   a \in TimeArgs, d \in TimeArgs, s \in SustainArgs, r \in ReleaseArgs}
    /\ held = -1
    /\ released = -1
    /\ heldLong = FALSE

VoiceNext ==
    \/ Solo_noteOn(60)
    \/ Solo_noteOff
    \/ Solo_nextSample

(***************************************************************************)
(* PolyphonyManager (audio/PolyphonyManager.cpp)                           *)
(* The operations are functions of the manager's state p, a record of      *)
(* mVoices, mVoiceAge, mAgeCounter and mUnisonNoteVoices.                  *)
(***************************************************************************)
PolyState == [mVoices |-> mVoices, mVoiceAge |-> mVoiceAge,
              mAgeCounter |-> mAgeCounter, mUnisonNoteVoices |-> mUnisonNoteVoices]

\* PolyphonyManager::findFreeVoice
findFreeVoice(voices) ==
    IF \E i \in Voices : ~isActive(voices[i])
    THEN CHOOSE i \in Voices :
            /\ ~isActive(voices[i])
            /\ \A j \in Voices : j < i => isActive(voices[j])
    ELSE -1

\* a plausible slip: only a held voice counts, a releasing one is passed over
findVoiceWithNote_heldOnly(voices, midiNote) ==
    LET hit(i) == voices[i].mMidiNote = midiNote /\ voices[i].mState = "ACTIVE"
    IN IF \E i \in Voices : hit(i)
       THEN CHOOSE i \in Voices : hit(i) /\ \A j \in Voices : j < i => ~hit(j)
       ELSE -1

\* PolyphonyManager::findVoiceWithNote
findVoiceWithNote(voices, midiNote) ==
    LET hit(i) == voices[i].mMidiNote = midiNote /\ isActive(voices[i])
    IN IF \E i \in Voices : hit(i)
       THEN CHOOSE i \in Voices : hit(i) /\ \A j \in Voices : j < i => ~hit(j)
       ELSE -1

\* a plausible slip: > for <, the most recently started voice is taken
stealOldestVoice_newest(age) ==
    CHOOSE i \in Voices :
        \A j \in Voices : age[j] < age[i] \/ (age[j] = age[i] /\ i <= j)

\* PolyphonyManager::stealOldestVoice: the first index of minimal age
stealOldestVoice(age) ==
    CHOOSE i \in Voices :
        \A j \in Voices : age[i] < age[j] \/ (age[i] = age[j] /\ i <= j)

\* PolyphonyManager::calculateUnisonDetune, in hundredths of a cent
calculateUnisonDetune(voiceIndex, totalVoices) ==
    IF totalVoices <= 1 THEN 0
    ELSE LET spread == 100 * UnisonDetuneCents
             step == (spread * 2) \div (totalVoices - 1)
         IN step * voiceIndex - spread

\* a plausible slip: mAgeCounter++ for ++mAgeCounter, the voice gets the age
\* before the bump
Start_postIncrement(p, i, midiNote) ==
    [p EXCEPT !.mVoices[i] = Voice_noteOn(@, midiNote),
              !.mVoiceAge[i] = p.mAgeCounter,
              !.mAgeCounter = @ + 1]

\* mVoices[i].noteOn(midiNote, frequency); mVoiceAge[i] = ++mAgeCounter
Start(p, i, midiNote) ==
    [p EXCEPT !.mVoices[i] = Voice_noteOn(@, midiNote),
              !.mVoiceAge[i] = p.mAgeCounter + 1,
              !.mAgeCounter = @ + 1]

\* PolyphonyManager::applyParamsToVoice: the manager's copy of every
\* parameter is written to the voice (decay and sustain have no setter action
\* in the model and keep their defaults)
applyParamsToVoice(v) ==
    Voice_setRelease(
        Voice_setSustain(
            Voice_setDecay(
                Voice_setAttack(Voice_setFilterCutoff(v, mFilterCutoff), mAttack),
                DecayMs),
            mSustainLevel),
        mRelease)

\* PolyphonyManager.cpp:39-49, the allocation of a voice in normal mode
Allocate(p, midiNote) ==
    LET free == findFreeVoice(p.mVoices)
        voiceIndex == IF free < 0 THEN stealOldestVoice(p.mVoiceAge) ELSE free
    IN Start([p EXCEPT !.mVoices[voiceIndex] =
                           Voice_setDetune(applyParamsToVoice(@), 0)],
             voiceIndex, midiNote)

\* PolyphonyManager.cpp:245-256, the retrigger loop of noteOnUnison over the
\* voices j >= from whose note is midiNote
RECURSIVE RetriggerUnison(_, _, _)
RetriggerUnison(p, from, midiNote) ==
    IF from >= MAX_POLYPHONY THEN p
    ELSE RetriggerUnison(
             IF p.mVoices[from].mMidiNote = midiNote
             THEN Start(p, from, midiNote) ELSE p,
             from + 1, midiNote)

\* PolyphonyManager.cpp:258-275, the allocation loop of noteOnUnison from v on
RECURSIVE AllocateUnison(_, _, _, _)
AllocateUnison(p, v, voicesToUse, midiNote) ==
    IF v >= voicesToUse THEN p
    ELSE LET free == findFreeVoice(p.mVoices)
             voiceIndex == IF free < 0 THEN stealOldestVoice(p.mVoiceAge) ELSE free
             detuned == [p EXCEPT !.mVoices[voiceIndex] =
                            Voice_setDetune(applyParamsToVoice(@),
                                            calculateUnisonDetune(v, voicesToUse))]
             started == Start(detuned, voiceIndex, midiNote)
         IN AllocateUnison(
                [started EXCEPT !.mUnisonNoteVoices[voiceIndex] = midiNote],
                v + 1, voicesToUse, midiNote)

\* PolyphonyManager::noteOnUnison
noteOnUnison(p, unisonVoices, midiNote) ==
    IF \E i \in Voices : p.mVoices[i].mMidiNote = midiNote /\ isActive(p.mVoices[i])
    THEN RetriggerUnison(p, 0, midiNote)
    ELSE AllocateUnison(p, 0, Min(unisonVoices, MAX_POLYPHONY), midiNote)

\* PolyphonyManager::noteOn
Poly_noteOn(p, unisonEnabled, unisonVoices, midiNote) ==
    IF unisonEnabled THEN noteOnUnison(p, unisonVoices, midiNote)
    ELSE LET existingVoice == findVoiceWithNote(p.mVoices, midiNote)
         IN IF existingVoice >= 0
            THEN Start(p, existingVoice, midiNote)
            ELSE Allocate(p, midiNote)

\* a plausible slip: the loop stops at the first voice that holds the note
Poly_noteOff_first(p, unisonEnabled, midiNote) ==
    LET bound(i) == p.mVoices[i].mMidiNote = midiNote /\ p.mVoices[i].mState = "ACTIVE"
        first(i) == bound(i) /\ \A j \in Voices : j < i => ~bound(j)
    IN [p EXCEPT
          !.mVoices = [i \in Voices |->
                         IF first(i) THEN Voice_noteOff(p.mVoices[i]) ELSE p.mVoices[i]],
          !.mUnisonNoteVoices = [i \in Voices |->
                         IF unisonEnabled /\ first(i) THEN -1 ELSE p.mUnisonNoteVoices[i]]]

\* PolyphonyManager::noteOff and noteOffUnison: both release the ACTIVE voices
\* bound to the note, noteOffUnison also clears their tracking entry
Poly_noteOff(p, unisonEnabled, midiNote) ==
    LET hit(i) == p.mVoices[i].mMidiNote = midiNote /\ p.mVoices[i].mState = "ACTIVE"
    IN [p EXCEPT
          !.mVoices = [i \in Voices |->
                         IF hit(i) THEN Voice_noteOff(p.mVoices[i]) ELSE p.mVoices[i]],
          !.mUnisonNoteVoices = [i \in Voices |->
                         IF unisonEnabled /\ hit(i) THEN -1 ELSE p.mUnisonNoteVoices[i]]]

\* PolyphonyManager::allNotesOff
Poly_allNotesOff(p) ==
    [p EXCEPT
       !.mVoices = [i \in Voices |->
                      IF isActive(p.mVoices[i])
                      THEN Voice_noteOff(p.mVoices[i]) ELSE p.mVoices[i]],
       !.mUnisonNoteVoices = [i \in Voices |-> -1]]

\* PolyphonyManager::nextSample: every non-idle voice renders one sample
Poly_nextSample(p) ==
    [p EXCEPT !.mVoices = [i \in Voices |->
                             IF isActive(p.mVoices[i])
                             THEN Voice_nextSample(p.mVoices[i]) ELSE p.mVoices[i]]]

\* the sum of the amplitude envelope levels of the non-idle voices
Poly_level(voices) ==
    SumOver([i \in Voices |-> IF isActive(voices[i]) THEN voices[i].mCurrentLevel ELSE 0],
            Voices)

\* the value of `played` once something else than a plain noteOn happened
Unplayed == <<-1>>

SetPoly(p) ==
    /\ mVoices' = p.mVoices
    /\ mVoiceAge' = p.mVoiceAge
    /\ mAgeCounter' = p.mAgeCounter
    /\ mUnisonNoteVoices' = p.mUnisonNoteVoices

\* --- the manager driven directly ---
noteOn(midiNote) ==
    LET p == Poly_noteOn(PolyState, mUnisonEnabled, mUnisonVoices, midiNote)
    IN /\ p.mAgeCounter <= MaxAge
       /\ SetPoly(p)
       /\ played' = IF played # Unplayed /\ ~mUnisonEnabled /\ Len(played) <= MAX_POLYPHONY
                    THEN Append(played, midiNote) ELSE Unplayed
       /\ UNCHANGED <<mUnisonEnabled, mUnisonVoices>>
       /\ UNCHANGED notPolyVars

noteOff(midiNote) ==
    /\ SetPoly(Poly_noteOff(PolyState, mUnisonEnabled, midiNote))
    /\ played' = Unplayed
    /\ UNCHANGED <<mUnisonEnabled, mUnisonVoices>>
    /\ UNCHANGED notPolyVars

allNotesOff ==
    /\ SetPoly(Poly_allNotesOff(PolyState))
    /\ played' = Unplayed
    /\ UNCHANGED <<mUnisonEnabled, mUnisonVoices>>
    /\ UNCHANGED notPolyVars

\* PolyphonyManager::setUnisonEnabled
setUnisonEnabled(enabled) ==
    /\ SetPoly(IF mUnisonEnabled # enabled THEN Poly_allNotesOff(PolyState)
               ELSE PolyState)
    /\ mUnisonEnabled' = enabled
    /\ played' = Unplayed
    /\ UNCHANGED mUnisonVoices
    /\ UNCHANGED notPolyVars

\* PolyphonyManager::setUnisonVoices
setUnisonVoices(count) ==
    /\ mUnisonVoices' = Max(MinUnisonVoices, Min(MaxUnisonVoices, count))
    /\ played' = Unplayed
    /\ UNCHANGED <<mVoices, mVoiceAge, mAgeCounter, mUnisonNoteVoices, mUnisonEnabled>>
    /\ UNCHANGED notPolyVars

nextSample ==
    /\ SetPoly(Poly_nextSample(PolyState))
    /\ UNCHANGED <<mUnisonEnabled, mUnisonVoices, played>>
    /\ UNCHANGED notPolyVars

\* what a parameter setter of the manager leaves alone
notParamVars == <<looperVars, looperIO, history, wurliVars, engineVars, voiceVars,
                  hostVars, deskVars, mVoiceAge, mAgeCounter, mUnisonEnabled, mUnisonVoices,
                  mUnisonNoteVoices, played>>

\* a plausible slip: the value reaches a voice only at its next allocation
Poly_setAttack_deferred(voices, time) == voices

\* the loop of PolyphonyManager::setAttack over the voices
Poly_setAttack(voices, time) == [i \in Voices |-> Voice_setAttack(voices[i], time)]

\* PolyphonyManager::setAttack (called under the engine mutex by
\* AudioEngine::setAttack)
setAttack(time) ==
    /\ mAttack' = time
    /\ mVoices' = Poly_setAttack(mVoices, time)
    /\ paramAge' = mAgeCounter
    /\ UNCHANGED <<mRelease, mFilterCutoff>>
    /\ UNCHANGED notParamVars

\* PolyphonyManager::setRelease
setRelease(time) ==
    /\ mRelease' = time
    /\ mVoices' = [i \in Voices |-> Voice_setRelease(mVoices[i], time)]
    /\ paramAge' = mAgeCounter
    /\ UNCHANGED <<mAttack, mFilterCutoff>>
    /\ UNCHANGED notParamVars

\* PolyphonyManager::setFilterCutoff
setFilterCutoff(cutoffHz) ==
    /\ mFilterCutoff' = cutoffHz
    /\ mVoices' = [i \in Voices |-> Voice_setFilterCutoff(mVoices[i], cutoffHz)]
    /\ paramAge' = mAgeCounter
    /\ UNCHANGED <<mAttack, mRelease>>
    /\ UNCHANGED notParamVars

PolyInit ==
    /\ mAttack = AttackMs
    /\ mRelease = ReleaseMs
    /\ mFilterCutoff = DefaultFilterCutoff
    /\ paramAge = -1
    /\ mVoices = [i \in Voices |-> IdleVoice]
    /\ mVoiceAge = [i \in Voices |-> 0]
    /\ mAgeCounter = 0
    /\ mUnisonEnabled = FALSE
    /\ mUnisonVoices = DefaultUnisonVoices
    /\ mUnisonNoteVoices = [i \in Voices |-> -1]
    /\ played = <<>>

PolyNext ==
    \/ \E m \in NoteArgs : noteOn(m)
    \/ \E m \in NoteArgs : noteOff(m)
    \/ allNotesOff
    \/ \E e \in BOOLEAN : setUnisonEnabled(e)
    \/ \E c \in UnisonVoicesArgs : setUnisonVoices(c)
    \/ nextSample

\* the arguments of the parameter setters
AttackArgs == {500}
ParamReleaseArgs == {1000}
CutoffArgs == {500}

\* notes and parameter changes in any order
ParamsNext ==
    \/ \E t \in AttackArgs : setAttack(t)
    \/ \E t \in ParamReleaseArgs : setRelease(t)
    \/ \E c \in CutoffArgs : setFilterCutoff(c)
    \/ \E m \in NoteArgs : noteOn(m)
    \/ \E m \in NoteArgs : noteOff(m)

(***************************************************************************)
(* WurlitzerVoice and WurlitzerEngine (audio/WurlitzerVoice.cpp,           *)
(* audio/WurlitzerEngine.cpp)                                              *)
(***************************************************************************)
WVoices == 0..(WURLI_MAX_VOICES - 1)

\* a WurlitzerVoice as constructed (WurlitzerVoice.h:39-43, 53-61).  stage
\* stands for the flags attacking / decaying / sustaining / releasing of
\* mAmpEnv, of which at most one is set; "none" when none is.
IdleWurli == [mActive |-> FALSE, mMidiNote |-> -1, stage |-> "none", level |-> 0]

\* 1 / (time * sr) of WurlitzerVoice::Envelope::trigger, the time in tenths of
\* a millisecond
WurliRate(tenthMs) == (EnvOne * 10000) \div (tenthMs * VoiceSampleRate)

\* WurlitzerVoice::setupEnvelopes, the times of mAmpEnv for a velocity in
\* tenths: attack 8-20 ms, decay 2.0-3.5 s, in tenths of a millisecond
WurliAttack(velocity) == 80 + (10 - velocity) * 12
WurliDecay(velocity) == 20000 + (10 - velocity) * 1500

\* WurlitzerVoice::Envelope::trigger
Wurli_trigger(v) == [v EXCEPT !.level = 0, !.stage = "attacking"]

\* WurlitzerVoice::Envelope::release
Wurli_release(v) ==
    IF v.stage \in {"attacking", "decaying", "sustaining"}
    THEN [v EXCEPT !.stage = "releasing"] ELSE v

\* WurlitzerVoice::Envelope::process of mAmpEnv (sustain level 0) after
\* trigger(attack, decay, 0, 0.35, sr), the times in tenths of a millisecond
Wurli_envProcessOf(v, attack, decay) ==
    LET attackRate == IF attack > 5 THEN WurliRate(attack) ELSE EnvOne
        decayRate == IF decay > 10 THEN WurliRate(decay) ELSE EnvOne \div 100
        releaseRate == WurliRate(10 * WurliReleaseMs)
        up == v.level + attackRate
        down == v.level - (decayRate * (v.level + EnvOne \div 1000)) \div EnvOne
        fall == v.level - (releaseRate * (v.level + EnvOne \div 1000)) \div EnvOne
    IN CASE v.stage = "attacking" ->
              IF up >= EnvOne THEN [v EXCEPT !.level = EnvOne, !.stage = "decaying"]
              ELSE [v EXCEPT !.level = up]
         [] v.stage = "decaying" ->
              IF down <= EnvOne \div 1000
              THEN [v EXCEPT !.level = 0, !.stage = "sustaining"]
              ELSE [v EXCEPT !.level = down]
         [] v.stage = "sustaining" -> [v EXCEPT !.level = 0]
         [] v.stage = "releasing" ->
              IF fall <= EnvOne \div 2000
              THEN [v EXCEPT !.level = 0, !.stage = "none"]
              ELSE [v EXCEPT !.level = fall]
         [] OTHER -> v

\* the same for a voice started at a velocity in tenths
Wurli_envProcess(v, velocity) ==
    Wurli_envProcessOf(v, WurliAttack(velocity), WurliDecay(velocity))

\* WurlitzerVoice::Envelope::isActive
Wurli_envActive(v) == v.stage # "none" \/ v.level > EnvOne \div 2000

\* WurlitzerVoice::noteOn
WurliVoice_noteOn(v, midiNote) ==
    [Wurli_trigger(v) EXCEPT !.mMidiNote = midiNote, !.mActive = TRUE]

\* WurlitzerVoice::nextSample
WurliVoice_nextSample(v, velocity) ==
    IF ~v.mActive THEN v
    ELSE LET e == Wurli_envProcess(v, velocity)
         IN IF ~Wurli_envActive(e) THEN [e EXCEPT !.mActive = FALSE] ELSE e

WurliState == [mVoices |-> wVoices, mVoiceAge |-> wVoiceAge, mAgeCounter |-> wAgeCounter]

\* WurlitzerEngine::noteOn with its findVoiceWithNote, findFreeVoice and
\* stealOldestVoice
Wurli_noteOn(w, midiNote) ==
    LET hit(i) == w.mVoices[i].mActive /\ w.mVoices[i].mMidiNote = midiNote
        first(P(_)) == CHOOSE i \in WVoices : P(i) /\ \A j \in WVoices : j < i => ~P(j)
        free(i) == ~w.mVoices[i].mActive
        oldest == CHOOSE i \in WVoices :
                     \A j \in WVoices : w.mVoiceAge[i] < w.mVoiceAge[j]
                                        \/ (w.mVoiceAge[i] = w.mVoiceAge[j] /\ i <= j)
        voiceIndex == IF \E i \in WVoices : hit(i) THEN first(hit)
                      ELSE IF \E i \in WVoices : free(i) THEN first(free)
                      ELSE oldest
    IN [w EXCEPT !.mVoices[voiceIndex] = WurliVoice_noteOn(@, midiNote),
                 !.mVoiceAge[voiceIndex] = w.mAgeCounter + 1,
                 !.mAgeCounter = @ + 1]

\* WurlitzerEngine::noteOff
Wurli_noteOff(w, midiNote) ==
    [w EXCEPT !.mVoices = [i \in WVoices |->
        IF w.mVoices[i].mMidiNote = midiNote /\ w.mVoices[i].mActive
        THEN Wurli_release(w.mVoices[i]) ELSE w.mVoices[i]]]

\* WurlitzerEngine::allNotesOff
Wurli_allNotesOff(w) ==
    [w EXCEPT !.mVoices = [i \in WVoices |->
        IF w.mVoices[i].mActive THEN Wurli_release(w.mVoices[i]) ELSE w.mVoices[i]]]

\* WurlitzerEngine::process: every active voice renders one sample
Wurli_process(w) ==
    [w EXCEPT !.mVoices = [i \in WVoices |->
        WurliVoice_nextSample(w.mVoices[i], DefaultVelocityTenths)]]

\* the sum of the amplitude envelope levels of the active voices
Wurli_level(voices) ==
    SumOver([i \in WVoices |-> IF voices[i].mActive THEN voices[i].level ELSE 0], WVoices)

SetWurli(w) ==
    /\ wVoices' = w.mVoices
    /\ wVoiceAge' = w.mVoiceAge
    /\ wAgeCounter' = w.mAgeCounter

\* --- one WurlitzerVoice driven directly, with a velocity ---
\* the velocities given to noteOn, in tenths: two outside [0, 1], the two ends
\* and the default
WurliVelocityArgs == {-5, 0, 7, 10, 15}

\* std::max(0.0f, std::min(1.0f, velocity)), in tenths
ClampVelocity(velocity) == Max(0, Min(10, velocity))

\* a WurlitzerVoice as constructed (WurlitzerVoice.h:39-84): no envelope has
\* been triggered, which the times 0 stand for
NewWurlitzerVoice ==
    [mActive |-> FALSE, mMidiNote |-> -1, mVelocity |-> 7,
     stage |-> "none", level |-> 0,
     attackTime |-> 0, decayTime |-> 0, barkDecay |-> 0, harmonicDecay |-> 0,
     tineDecay |-> 0, mBarkIntensity |-> 0,
     mFundamentalLevel |-> 600, mSecondHarmonicLevel |-> 250,
     mThirdHarmonicLevel |-> 150]

\* WurlitzerVoice::setupEnvelopes(velocity): what it computes from its argument
setupEnvelopes(v, velocity) ==
    [Wurli_trigger(v) EXCEPT
        !.attackTime = WurliAttack(velocity),
        !.decayTime = WurliDecay(velocity),
        !.barkDecay = 400 + (10 - velocity) * 30,
        !.mBarkIntensity = 80 + velocity * 12,
        !.harmonicDecay = 5000 + (10 - velocity) * 300,
        !.tineDecay = 12000 + velocity * 500,
        !.mFundamentalLevel = 650 + (10 - velocity) * 10,
        !.mSecondHarmonicLevel = 120 + velocity * 10,
        !.mThirdHarmonicLevel = 50 + velocity * 8]

\* WurlitzerVoice::noteOn(midiNote, frequency, velocity): mVelocity is
\* clamped, setupEnvelopes is given the argument as it came
WurlitzerVoice_noteOn(v, midiNote, velocity) ==
    setupEnvelopes([v EXCEPT !.mMidiNote = midiNote,
                             !.mVelocity = ClampVelocity(velocity),
                             !.mActive = TRUE],
                   velocity)

\* WurlitzerVoice::nextSample of that voice
WurlitzerVoice_nextSample(v) ==
    IF ~v.mActive THEN v
    ELSE LET e == Wurli_envProcessOf(v, v.attackTime, v.decayTime)
         IN IF ~Wurli_envActive(e) THEN [e EXCEPT !.mActive = FALSE] ELSE e

notWurliVoiceVars == <<looperVars, looperIO, history, polyVars, wurliVars, engineVars,
                       voiceVars, paramVars, restartVars, badCalls, drumUnitVars,
                       procTrack, deskVars>>

WUnit_noteOn(velocity) ==
    /\ wurliVoice' = WurlitzerVoice_noteOn(wurliVoice, 60, velocity)
    /\ wGiven' = <<velocity>>
    /\ UNCHANGED notWurliVoiceVars

\* WurlitzerVoice::noteOff
WUnit_noteOff ==
    /\ wurliVoice' = Wurli_release(wurliVoice)
    /\ UNCHANGED wGiven
    /\ UNCHANGED notWurliVoiceVars

WUnit_nextSample ==
    /\ wurliVoice' = WurlitzerVoice_nextSample(wurliVoice)
    /\ UNCHANGED wGiven
    /\ UNCHANGED notWurliVoiceVars

WurliVoiceNext ==
    \/ \E v \in WurliVelocityArgs : WUnit_noteOn(v)
    \/ WUnit_noteOff
    \/ WUnit_nextSample

WurliInit ==
    /\ wVoices = [i \in WVoices |-> IdleWurli]
    /\ wVoiceAge = [i \in WVoices |-> 0]
    /\ wAgeCounter = 0
    /\ wurliVoice = NewWurlitzerVoice
    /\ wGiven = <<>>

(***************************************************************************)
(* DrumMachine (audio/DrumMachine.h, audio/DrumMachine.cpp)                *)
(* The operations are functions of the machine's state d, a record of its  *)
(* fields.  The DrumSynth that makes the sound is not modelled.            *)
(***************************************************************************)
Steps == 0..(NUM_STEPS - 1)
KICK == 0
SNARE == 1
HIHAT == 2

\* DrumMachine::resetToDefaultPattern: the three patterns, in hundredths
DefaultKickPattern == [k \in Steps |-> IF k \in {0, 8} THEN DrumOne ELSE 0]
DefaultSnarePattern == [k \in Steps |-> IF k \in {4, 12} THEN DrumOne ELSE 0]
DefaultHiHatPattern ==
    [k \in Steps |->
        <<100, 50, 70, 40, 90, 50, 60, 40, 100, 50, 70, 40, 90, 50, 60, 45>>[k + 1]]

\* DrumMachine::calculateSamplesPerSixteenth, in 1 / TempoScale of a frame
SamplesPerSixteenthOf(bpm) == (15 * DrumSampleRate * TempoScale) \div bpm

\* a DrumMachine as constructed (DrumMachine.h:103-126, DrumMachine.cpp:6-9)
NewDrumMachine ==
    [mEnabled |-> FALSE, mBPM |-> DefaultBPM,
     mKickPattern |-> DefaultKickPattern,
     mSnarePattern |-> DefaultSnarePattern,
     mHiHatPattern |-> DefaultHiHatPattern,
     mKickVolume |-> DrumOne, mSnareVolume |-> DrumOne, mHiHatVolume |-> DrumOne,
     mCurrentSixteenth |-> 0, mSampleCounter |-> 0,
     mSamplesPerSixteenth |-> SamplesPerSixteenthOf(DefaultBPM)]

isValidInstrument(instrument) == instrument >= 0 /\ instrument < NUM_INSTRUMENTS
isValidStep(step) == step >= 0 /\ step < NUM_STEPS

\* std::max(60.0f, std::min(200.0f, bpm))
ClampDrumBPM(bpm) == Max(DrumMinBPM, Min(DrumMaxBPM, bpm))

\* DrumMachine::setBPM
Drum_setBPM(d, bpm) ==
    [d EXCEPT !.mBPM = ClampDrumBPM(bpm),
              !.mSamplesPerSixteenth = SamplesPerSixteenthOf(ClampDrumBPM(bpm))]

\* a plausible slip: the check of the step is missing, a step past the end
\* lands on the last one
Drum_setStep_noStepCheck(d, instrument, step, velocity) ==
    LET clampedVel == Max(0, Min(DrumOne, velocity))
        at == Max(0, Min(NUM_STEPS - 1, step))
    IN IF ~isValidInstrument(instrument) THEN d
       ELSE CASE instrument = KICK -> [d EXCEPT !.mKickPattern[at] = clampedVel]
              [] instrument = SNARE -> [d EXCEPT !.mSnarePattern[at] = clampedVel]
              [] instrument = HIHAT -> [d EXCEPT !.mHiHatPattern[at] = clampedVel]

\* a plausible slip: the velocity is stored as it came
Drum_setStep_unclamped(d, instrument, step, velocity) ==
    IF ~isValidInstrument(instrument) \/ ~isValidStep(step) THEN d
    ELSE CASE instrument = KICK -> [d EXCEPT !.mKickPattern[step] = velocity]
           [] instrument = SNARE -> [d EXCEPT !.mSnarePattern[step] = velocity]
           [] instrument = HIHAT -> [d EXCEPT !.mHiHatPattern[step] = velocity]

\* DrumMachine::setStep
Drum_setStep(d, instrument, step, velocity) ==
    LET clampedVel == Max(0, Min(DrumOne, velocity))
    IN IF ~isValidInstrument(instrument) \/ ~isValidStep(step) THEN d
       ELSE CASE instrument = KICK -> [d EXCEPT !.mKickPattern[step] = clampedVel]
              [] instrument = SNARE -> [d EXCEPT !.mSnarePattern[step] = clampedVel]
              [] instrument = HIHAT -> [d EXCEPT !.mHiHatPattern[step] = clampedVel]

\* DrumMachine::getStep
Drum_getStep(d, instrument, step) ==
    IF ~isValidInstrument(instrument) \/ ~isValidStep(step) THEN 0
    ELSE CASE instrument = KICK -> d.mKickPattern[step]
           [] instrument = SNARE -> d.mSnarePattern[step]
           [] instrument = HIHAT -> d.mHiHatPattern[step]

\* a plausible slip: >= for >, a step that is off is set to 0 again
Drum_toggleStep_stuck(d, instrument, step) ==
    IF ~isValidInstrument(instrument) \/ ~isValidStep(step) THEN d
    ELSE Drum_setStep(d, instrument, step,
                      IF Drum_getStep(d, instrument, step) >= 0 THEN 0 ELSE DrumOne)

\* DrumMachine::toggleStep
Drum_toggleStep(d, instrument, step) ==
    IF ~isValidInstrument(instrument) \/ ~isValidStep(step) THEN d
    ELSE Drum_setStep(d, instrument, step,
                      IF Drum_getStep(d, instrument, step) > 0 THEN 0 ELSE DrumOne)

\* DrumMachine::setInstrumentVolume
Drum_setInstrumentVolume(d, instrument, volume) ==
    LET clampedVol == Max(0, Min(DrumOne, volume))
    IN IF ~isValidInstrument(instrument) THEN d
       ELSE CASE instrument = KICK -> [d EXCEPT !.mKickVolume = clampedVol]
              [] instrument = SNARE -> [d EXCEPT !.mSnareVolume = clampedVol]
              [] instrument = HIHAT -> [d EXCEPT !.mHiHatVolume = clampedVol]

\* DrumMachine::resetBeat
Drum_resetBeat(d) == [d EXCEPT !.mCurrentSixteenth = 0, !.mSampleCounter = 0]

\* DrumMachine::triggerSixteenth: the instruments triggered on the drum synth
\* for a step.  mKickEnabled and mSnareEnabled are true and mHiHatEnabled is
\* false as constructed (DrumMachine.h:103-105), and nothing here sets them.
triggerSixteenth(d, sixteenth) ==
    IF sixteenth < 0 \/ sixteenth >= NUM_STEPS THEN {}
    ELSE {i \in {KICK, SNARE} :
            \/ i = KICK /\ d.mKickPattern[sixteenth] > 0
            \/ i = SNARE /\ d.mSnarePattern[sixteenth] > 0}

\* the instruments triggered by DrumMachine::resetBeat
Drum_resetBeatTriggers(d) == triggerSixteenth(d, 0)

\* the instruments triggered by DrumMachine::setEnabled
Drum_setEnabledTriggers(d, enabled) ==
    IF enabled /\ ~d.mEnabled THEN triggerSixteenth(d, 0) ELSE {}

\* the instruments triggered by DrumMachine::nextSample
Drum_nextSampleTriggers(d) ==
    IF d.mEnabled /\ d.mSampleCounter + TempoScale >= d.mSamplesPerSixteenth
    THEN triggerSixteenth(d, (d.mCurrentSixteenth + 1) % NUM_STEPS)
    ELSE {}

\* DrumMachine::setEnabled
Drum_setEnabled(d, enabled) ==
    [(IF enabled /\ ~d.mEnabled THEN Drum_resetBeat(d) ELSE d)
        EXCEPT !.mEnabled = enabled]

\* DrumMachine::nextSample: the sequencer step of one frame
Drum_nextSample(d) ==
    LET counted == d.mSampleCounter + TempoScale
        perSixteenth == d.mSamplesPerSixteenth
    IN IF ~d.mEnabled THEN d
       ELSE IF counted >= perSixteenth
       THEN [d EXCEPT !.mSampleCounter = counted - perSixteenth,
                      !.mCurrentSixteenth = (d.mCurrentSixteenth + 1) % NUM_STEPS]
       ELSE [d EXCEPT !.mSampleCounter = counted]

\* --- one DrumMachine driven directly ---
Instruments == 0..(NUM_INSTRUMENTS - 1)

\* the steps and velocities given to setStep and toggleStep: the first and the
\* last step (the default hi-hat pattern has 1.0 and 0.45 there); a velocity
\* below 0, one inside and one above 1.0, in hundredths
PatternStepArgs == {0, NUM_STEPS - 1}
PatternVelocityArgs == {-20, 50, 150}

notDrumUnitVars == <<looperVars, looperIO, history, polyVars, wurliVars, engineVars,
                     voiceVars, paramVars, restartVars, badCalls, wurliUnitVars,
                     procTrack, deskVars>>

\* DrumMachine::setStep
DrumMachine_setStep(instrument, step, velocity) ==
    /\ drum' = Drum_setStep(drum, instrument, step, velocity)
    /\ toggleRun' = <<>>
    /\ UNCHANGED notDrumUnitVars

\* DrumMachine::toggleStep
DrumMachine_toggleStep(instrument, step) ==
    /\ drum' = Drum_toggleStep(drum, instrument, step)
    /\ toggleRun' =
          IF ~isValidInstrument(instrument) \/ ~isValidStep(step) THEN <<>>
          ELSE IF /\ toggleRun # <<>>
                  /\ toggleRun[1] = instrument /\ toggleRun[2] = step
                  /\ toggleRun[4] = 1
               THEN <<instrument, step, toggleRun[3], 2>>
               ELSE <<instrument, step, Drum_getStep(drum, instrument, step), 1>>
    /\ UNCHANGED notDrumUnitVars

\* the tempos given to setBPM while the sequencer runs: at DrumSampleRate a
\* sixteenth lasts 2.5 frames at 60 BPM and 1.25 frames at 120 BPM
SequencerBPMArgs == {60, 120}

\* DrumMachine::setBPM
DrumMachine_setBPM(bpm) ==
    /\ drum' = Drum_setBPM(drum, bpm)
    /\ UNCHANGED toggleRun
    /\ UNCHANGED notDrumUnitVars

\* DrumMachine::setEnabled
DrumMachine_setEnabled(enabled) ==
    /\ drum' = Drum_setEnabled(drum, enabled)
    /\ UNCHANGED toggleRun
    /\ UNCHANGED notDrumUnitVars

\* DrumMachine::resetBeat
DrumMachine_resetBeat ==
    /\ drum' = Drum_resetBeat(drum)
    /\ UNCHANGED toggleRun
    /\ UNCHANGED notDrumUnitVars

\* DrumMachine::nextSample
DrumMachine_nextSample ==
    /\ drum' = Drum_nextSample(drum)
    /\ UNCHANGED toggleRun
    /\ UNCHANGED notDrumUnitVars

\* the sequencer of one DrumMachine under tempo changes, start, stop and
\* resetBeat between its frames
SequencerNext ==
    \/ \E b \in SequencerBPMArgs : DrumMachine_setBPM(b)
    \/ \E e \in BOOLEAN : DrumMachine_setEnabled(e)
    \/ DrumMachine_resetBeat
    \/ DrumMachine_nextSample

PatternNext ==
    \/ \E i \in Instruments, k \in PatternStepArgs, v \in PatternVelocityArgs :
          DrumMachine_setStep(i, k, v)
    \/ \E i \in Instruments, k \in PatternStepArgs : DrumMachine_toggleStep(i, k)

(***************************************************************************)
(* AudioEngine::restart (audio/AudioEngine.cpp:84-138).  restart() is      *)
(* called by the application on a device change and by Oboe's error thread *)
(* through onErrorAfterClose; it takes no mutex.  Each thread advances by  *)
(* one stream operation per step.                                          *)
(***************************************************************************)
RestartThreads == 1..NumRestartThreads

notRestartVars == <<looperVars, looperIO, history, polyVars, wurliVars, engineVars,
                    voiceVars, paramVars, badCalls, wurliUnitVars, drumUnitVars,
                    procTrack, deskVars>>

\* a plausible slip: a plain store of true, which never fails
CompareExchange_store(flag, expected) == TRUE

\* whether mIsRestarting.compare_exchange_strong(expected, true) succeeds
CompareExchange(flag, expected) == flag = expected

\* restart() up to the compare-exchange: one atomic step that either takes
\* the flag or returns
restart_begin(t) ==
    /\ restartPc[t] = "idle"
    /\ IF CompareExchange(mIsRestarting, FALSE)
       THEN /\ restarts < MaxRestarts
            /\ mIsRestarting' = TRUE
            /\ restartPc' = [restartPc EXCEPT ![t] = "stop"]
            /\ bounced' = [bounced EXCEPT ![t] = FALSE]
            /\ restarts' = restarts + 1
       ELSE /\ bounced' = [bounced EXCEPT ![t] = TRUE]
            /\ UNCHANGED <<mIsRestarting, restartPc, restarts>>
    /\ UNCHANGED <<mStream, startResult>>
    /\ UNCHANGED notRestartVars

\* AudioEngine::stop called by restart(): requestStop, close, reset
restart_stop(t) ==
    /\ restartPc[t] = "stop"
    /\ mStream' = "none"
    /\ restartPc' = [restartPc EXCEPT ![t] = "create"]
    /\ UNCHANGED <<mIsRestarting, startResult, bounced, restarts>>
    /\ UNCHANGED notRestartVars

\* AudioEngine::start, first half: createStream, which may fail
restart_create(t) ==
    /\ restartPc[t] = "create"
    /\ \E ok \in BOOLEAN :
          IF ok
          THEN /\ mStream' = "open"
               /\ restartPc' = [restartPc EXCEPT ![t] = "request"]
               /\ UNCHANGED startResult
          ELSE /\ startResult' = FALSE
               /\ restartPc' = [restartPc EXCEPT ![t] = "clear"]
               /\ UNCHANGED mStream
    /\ UNCHANGED <<mIsRestarting, bounced, restarts>>
    /\ UNCHANGED notRestartVars

\* AudioEngine::start, second half: requestStart, which may fail
restart_request(t) ==
    /\ restartPc[t] = "request"
    /\ \E ok \in BOOLEAN :
          /\ mStream' = IF ok THEN "started" ELSE mStream
          /\ startResult' = ok
    /\ restartPc' = [restartPc EXCEPT ![t] = "clear"]
    /\ UNCHANGED <<mIsRestarting, bounced, restarts>>
    /\ UNCHANGED notRestartVars

\* mIsRestarting = false, whatever start() returned, and restart() returns
restart_clear(t) ==
    /\ restartPc[t] = "clear"
    /\ mIsRestarting' = FALSE
    /\ restartPc' = [restartPc EXCEPT ![t] = "idle"]
    /\ UNCHANGED <<mStream, startResult, bounced, restarts>>
    /\ UNCHANGED notRestartVars

RestartNext ==
    \E t \in RestartThreads :
        \/ restart_begin(t)
        \/ restart_stop(t)
        \/ restart_create(t)
        \/ restart_request(t)
        \/ restart_clear(t)

(***************************************************************************)
(* AudioEngine (audio/AudioEngine.cpp): note routing and the callback      *)
(***************************************************************************)
\* the note given to the engine
EngineNoteArgs == {60}

\* AudioEngine::noteOn(midiNote, frequency)
Engine_noteOn(midiNote) ==
    /\ IF mWurlitzerMode
       THEN LET w == Wurli_noteOn(WurliState, midiNote)
            IN /\ w.mAgeCounter <= MaxAge
               /\ SetWurli(w)
               /\ UNCHANGED <<mVoices, mVoiceAge, mAgeCounter, mUnisonNoteVoices>>
       ELSE LET p == Poly_noteOn(PolyState, mUnisonEnabled, mUnisonVoices, midiNote)
            IN /\ p.mAgeCounter <= MaxAge
               /\ SetPoly(p)
               /\ UNCHANGED wurliVars
    /\ played' = Unplayed
    /\ quiet' = -1
    /\ UNCHANGED <<mUnisonEnabled, mUnisonVoices, mWurlitzerMode, synthLevel>>
    /\ UNCHANGED <<looperVars, looperIO, history, unitVars, deskVars>>

\* AudioEngine::noteOff
Engine_noteOff(midiNote) ==
    /\ IF mWurlitzerMode
       THEN /\ SetWurli(Wurli_noteOff(WurliState, midiNote))
            /\ UNCHANGED <<mVoices, mVoiceAge, mAgeCounter, mUnisonNoteVoices>>
       ELSE /\ SetPoly(Poly_noteOff(PolyState, mUnisonEnabled, midiNote))
            /\ UNCHANGED wurliVars
    /\ played' = Unplayed
    /\ UNCHANGED <<mUnisonEnabled, mUnisonVoices, mWurlitzerMode, synthLevel, quiet>>
    /\ UNCHANGED <<looperVars, looperIO, history, unitVars, deskVars>>

\* AudioEngine::allNotesOff
Engine_allNotesOff ==
    /\ SetPoly(Poly_allNotesOff(PolyState))
    /\ SetWurli(Wurli_allNotesOff(WurliState))
    /\ played' = Unplayed
    /\ quiet' = 0
    /\ UNCHANGED <<mUnisonEnabled, mUnisonVoices, mWurlitzerMode, synthLevel>>
    /\ UNCHANGED <<looperVars, looperIO, history, unitVars, deskVars>>

\* a plausible slip: only the backend that is being entered is silenced
ModeSwitch_entered(p, w, current, enabled) ==
    IF current # enabled
    THEN [poly |-> IF enabled THEN p ELSE Poly_allNotesOff(p),
          wurli |-> IF enabled THEN Wurli_allNotesOff(w) ELSE w]
    ELSE [poly |-> p, wurli |-> w]

\* AudioEngine.cpp:227-232, what setWurlitzerMode(enabled) makes of the two
\* backends when the mode is `current`
ModeSwitch(p, w, current, enabled) ==
    IF current # enabled
    THEN [poly |-> Poly_allNotesOff(p), wurli |-> Wurli_allNotesOff(w)]
    ELSE [poly |-> p, wurli |-> w]

\* AudioEngine::setWurlitzerMode
setWurlitzerMode(enabled) ==
    /\ LET r == ModeSwitch(PolyState, WurliState, mWurlitzerMode, enabled)
       IN SetPoly(r.poly) /\ SetWurli(r.wurli)
    /\ mWurlitzerMode' = enabled
    /\ played' = Unplayed
    /\ UNCHANGED <<mUnisonEnabled, mUnisonVoices, synthLevel, quiet>>
    /\ UNCHANGED <<looperVars, looperIO, history, unitVars, deskVars>>

\* AudioEngine::setSynthVolume, the volume in tenths
setSynthVolume(volume) ==
    /\ mSynthVolume' = Max(0, Min(10, volume))
    /\ UNCHANGED <<mMetronomeVolume, mDrumEnabledByUser, mDrumMachine, struck, metroVars,
                   callbackVars>>
    /\ UNCHANGED <<looperVars, looperIO, history, polyVars, wurliVars, engineVars,
                   unitVars>>

\* AudioEngine::setMetronomeVolume, the volume in tenths
setMetronomeVolume(volume) ==
    /\ mMetronomeVolume' = Max(0, Min(MaxMetronomeVolume, volume))
    /\ UNCHANGED <<mSynthVolume, mDrumEnabledByUser, mDrumMachine, struck, metroVars,
                   callbackVars>>
    /\ UNCHANGED <<looperVars, looperIO, history, polyVars, wurliVars, engineVars,
                   unitVars>>

\* AudioEngine::setDrumEnabled with syncDrumToLoop
setDrumEnabled(enabled) ==
    LET syncs == enabled /\ mState = "PLAYING" /\ hasAnyLoop /\ mLoopLengthSamples > 0
        synced == IF syncs THEN Drum_resetBeat(mDrumMachine) ELSE mDrumMachine
        triggers == (IF syncs THEN Drum_resetBeatTriggers(mDrumMachine) ELSE {})
                    \cup Drum_setEnabledTriggers(synced, enabled)
    IN /\ mDrumEnabledByUser' = enabled
       /\ mDrumMachine' = Drum_setEnabled(synced, enabled)
       /\ struck' = IF mState \in {"PRE_COUNT", "RECORDING"}
                    THEN struck \cup triggers ELSE struck
       /\ UNCHANGED <<mSynthVolume, mMetronomeVolume, metroVars, callbackVars>>
       /\ UNCHANGED <<looperVars, looperIO, history, polyVars, wurliVars, engineVars,
                      unitVars>>

\* AudioEngine::setDrumBPM: DrumMachine::setBPM and Looper::setBPM, each with
\* its own clamp (Metronome::setBPM changes an object the callback never uses)
setDrumBPM(bpm) ==
    /\ mDrumMachine' = Drum_setBPM(mDrumMachine, bpm)
    /\ Looper_setBPM(bpm)
    /\ UNCHANGED <<mixVars, struck, metroVars, callbackVars>>
    /\ UNCHANGED <<polyVars, wurliVars, engineVars, unitVars>>

\* what a drum pattern control leaves alone
notPatternVars == <<looperVars, looperIO, history, polyVars, wurliVars, engineVars,
                    voiceVars, paramVars, restartVars, wurliUnitVars, drumUnitVars,
                    procTrack, mixVars, struck, metroVars, callbackVars>>

BadCall(bad) == badCalls' = IF bad THEN Min(badCalls + 1, MaxBadCalls) ELSE badCalls

\* AudioEngine::setDrumStep, the velocity in hundredths
setDrumStep(instrument, step, velocity) ==
    /\ mDrumMachine' = Drum_setStep(mDrumMachine, instrument, step, velocity)
    /\ BadCall(~isValidInstrument(instrument) \/ ~isValidStep(step))
    /\ UNCHANGED notPatternVars

\* AudioEngine::toggleDrumStep
toggleDrumStep(instrument, step) ==
    /\ mDrumMachine' = Drum_toggleStep(mDrumMachine, instrument, step)
    /\ BadCall(~isValidInstrument(instrument) \/ ~isValidStep(step))
    /\ UNCHANGED notPatternVars

\* AudioEngine::setDrumInstrumentVolume, the volume in hundredths
setDrumInstrumentVolume(instrument, volume) ==
    /\ mDrumMachine' = Drum_setInstrumentVolume(mDrumMachine, instrument, volume)
    /\ BadCall(~isValidInstrument(instrument))
    /\ UNCHANGED notPatternVars

\* AudioEngine::looperStartRecordingTrack: Looper::setBPM with the tempo of the
\* drum machine, then Looper::startRecordingTrack
looperStartRecordingTrack(trackIndex) ==
    LET bpm == ClampBPM(mDrumMachine.mBPM)
        rejected == startRecordingRejected(trackIndex)
    IN /\ Running
       /\ mBPM' = bpm
       /\ updateTiming(bpm)
       /\ IF rejected
          THEN UNCHANGED <<mState, mLoopLengthLocked, mTracks, mActiveRecordingTrack,
                           mRecordPosition, mPlaybackPosition, mPreCountPosition,
                           mCurrentBeat, mCurrentBar>>
          ELSE /\ mTracks' = [mTracks EXCEPT
                                 ![trackIndex].bufferL = Zeros(mLoopLengthSamples'),
                                 ![trackIndex].bufferR = Zeros(mLoopLengthSamples')]
               /\ mActiveRecordingTrack' = trackIndex
               /\ mState' = "PRE_COUNT"
               /\ mPreCountPosition' = 0
               /\ mRecordPosition' = 0
               /\ mCurrentBeat' = 0
               /\ mCurrentBar' = 0
               /\ UNCHANGED <<mLoopLengthLocked, mPlaybackPosition>>
       /\ UNCHANGED looperIO
       /\ fed' = IF rejected THEN fed ELSE [fed EXCEPT ![trackIndex] = <<>>]
       /\ Command(IF rejected THEN "other" ELSE "record", trackIndex)
       /\ UNCHANGED <<polyVars, wurliVars, engineVars, unitVars, deskVars>>

\* AudioEngine::looperStartPlayback: DrumMachine::resetBeat when the user has
\* the drums enabled, then Looper::startPlayback
looperStartPlayback ==
    /\ mDrumMachine' = IF mDrumEnabledByUser THEN Drum_resetBeat(mDrumMachine)
                       ELSE mDrumMachine
    /\ struck' = IF mDrumEnabledByUser /\ mState \in {"PRE_COUNT", "RECORDING"}
                 THEN struck \cup Drum_resetBeatTriggers(mDrumMachine) ELSE struck
    /\ Looper_startPlayback
    /\ UNCHANGED <<polyVars, wurliVars, engineVars, unitVars, mixVars, metroVars,
                   callbackVars>>

\* AudioEngine::looperClearAllTracks
looperClearAllTracks ==
    /\ Looper_clearAllTracks
    /\ UNCHANGED <<polyVars, wurliVars, engineVars, unitVars, deskVars>>

\* AudioEngine.cpp:705-732: the backend selected by mWurlitzerMode renders,
\* the other is not touched
RenderSynth ==
    IF mWurlitzerMode
    THEN /\ SetWurli(Wurli_process(WurliState))
         /\ synthLevel' = Wurli_level(wVoices')
         /\ UNCHANGED <<mVoices, mVoiceAge, mAgeCounter, mUnisonNoteVoices>>
    ELSE /\ SetPoly(Poly_nextSample(PolyState))
         /\ synthLevel' = Poly_level(mVoices')
         /\ UNCHANGED wurliVars

\* AudioEngine.cpp:765, in 1 / TempoScale of a frame
MetroSamplesPerBeatOf(bpm) == (60 * LooperSampleRate * TempoScale) \div bpm

\* AudioEngine.cpp:745-789, the metronome of a frame.  The looper state is read
\* after Looper::process, so it is mState'.
needsMetronome == mState' \in {"PRE_COUNT", "RECORDING"}

MetronomeStep ==
    LET starting == ~metronomeWasActive
        perBeat == IF starting THEN MetroSamplesPerBeatOf(mDrumMachine.mBPM)
                   ELSE metroSamplesPerBeat
        counted == (IF starting THEN 0 ELSE metroSampleCounter) + TempoScale
        beat == IF starting THEN 0 ELSE metroBeat
    IN IF needsMetronome
       THEN /\ metronomeWasActive' = TRUE
            /\ metroSamplesPerBeat' = perBeat
            /\ IF counted >= perBeat
               THEN /\ metroSampleCounter' = counted - perBeat
                    /\ metroBeat' = (beat + 1) % 4
                    /\ clickNext' = TRUE
               ELSE /\ metroSampleCounter' = counted
                    /\ metroBeat' = beat
                    /\ clickNext' = FALSE
       ELSE /\ metronomeWasActive' = FALSE
            /\ clickNext' = FALSE
            /\ UNCHANGED <<metroSampleCounter, metroBeat, metroSamplesPerBeat>>

\* AudioEngine.cpp:791-803, the drum machine of a frame
shouldPlayDrums == mDrumEnabledByUser /\ mState' \notin {"PRE_COUNT", "RECORDING"}

DrumStep ==
    /\ mDrumMachine' = IF shouldPlayDrums THEN Drum_nextSample(mDrumMachine)
                       ELSE mDrumMachine
    /\ struck' = IF shouldPlayDrums /\ mState' \in {"PRE_COUNT", "RECORDING"}
                 THEN Drum_nextSampleTriggers(mDrumMachine) ELSE {}

\* one pass of the loop body of AudioEngine::onAudioReady but for the mix
Engine_frame ==
    /\ RenderSynth
    /\ Looper_process
    /\ MetronomeStep
    /\ DrumStep
    /\ quiet' = IF quiet < 0 THEN -1 ELSE Min(quiet + 1, MaxQuiet)
    /\ UNCHANGED <<mUnisonEnabled, mUnisonVoices, played, mWurlitzerMode>>
    /\ UNCHANGED <<mixVars, unitVars>>

\* AudioEngine::onAudioReady, one frame of a call whose buffer is not looked at
onAudioReady == Engine_frame /\ UNCHANGED callbackVars

\* the samples the DrumSynth may give, in 1 / SampleOne
DrumSampleArgs == {-1500, 0, 1500}

\* a plausible slip: the clip is missing
HardClip_none(x) == x

\* AudioEngine.cpp:832-833, std::clamp(x, -1.0f, 1.0f)
HardClip(x) == Max(0 - SampleOne, Min(SampleOne, x))

\* AudioEngine.cpp:813-833, the mix of one channel: synth in tenths, loop in
\* hundredths, drumSample and the DrumSynth sample of the metronome in
\* 1 / SampleOne, metronomeVolume in tenths
FinalMix(synth, loop, drumSample, clickSample, metronomeVolume) ==
    LET synthMix == ((synth * 100 + loop * 10) * SYNTH_GAIN) \div 100
        drumMix == (drumSample * DRUM_GAIN) \div 100
        metronomeSample == (clickSample * METRONOME_VOLUME) \div 10
        metroMix == (metronomeSample * metronomeVolume) \div 10
    IN HardClip(synthMix + drumMix + metroMix)

\* AudioEngine::onAudioReady is entered: the memset of the buffer
Callback_begin ==
    /\ cbFrame = -1
    /\ cbFrame' = 0
    /\ output' = Zeros(2 * FramesPerBuffer)
    /\ stored' = {}
    /\ used' = <<>>
    /\ UNCHANGED <<looperVars, looperIO, history, polyVars, wurliVars, engineVars,
                   unitVars, mixVars, mDrumMachine, struck, metroVars>>

\* one pass of the loop of AudioEngine::onAudioReady
Callback_frame ==
    /\ cbFrame \in 0..(FramesPerBuffer - 1)
    /\ Engine_frame
    /\ \E drumSample \in IF shouldPlayDrums THEN DrumSampleArgs ELSE {0},
          clickSample \in IF needsMetronome THEN DrumSampleArgs ELSE {0} :
          output' = [output EXCEPT
             ![2 * cbFrame + 1] = FinalMix(InputL(synthPhase), loopOutL', drumSample,
                                           clickSample, mMetronomeVolume),
             ![2 * cbFrame + 2] = FinalMix(InputR(synthPhase), loopOutR', drumSample,
                                           clickSample, mMetronomeVolume)]
    /\ stored' = stored \cup {2 * cbFrame, 2 * cbFrame + 1}
    /\ used' = Append(used, <<mWurlitzerMode, mSynthVolume, mMetronomeVolume>>)
    /\ cbFrame' = cbFrame + 1

\* AudioEngine::onAudioReady returns DataCallbackResult::Continue and the
\* buffer goes back to the stream
Callback_return ==
    /\ cbFrame = FramesPerBuffer
    /\ cbFrame' = -1
    /\ output' = <<>>
    /\ stored' = {}
    /\ used' = <<>>
    /\ UNCHANGED <<looperVars, looperIO, history, polyVars, wurliVars, engineVars,
                   unitVars, mixVars, mDrumMachine, struck, metroVars>>

EngineInit ==
    /\ mWurlitzerMode = FALSE
    /\ synthLevel = 0
    /\ quiet = -1
    /\ mSynthVolume = DefaultSynthVolume
    /\ mMetronomeVolume = DefaultMetronomeVolume
    /\ mDrumEnabledByUser = FALSE
    /\ mDrumMachine = NewDrumMachine
    /\ struck = {}
    /\ metronomeWasActive = FALSE
    /\ metroSampleCounter = 0
    /\ metroBeat = 0
    /\ metroSamplesPerBeat = 0
    /\ clickNext = FALSE
    /\ cbFrame = -1
    /\ output = <<>>
    /\ stored = {}
    /\ used = <<>>
    /\ mIsRestarting = FALSE
    /\ mStream = "none"
    /\ restartPc = [t \in RestartThreads |-> "idle"]
    /\ startResult = "none"
    /\ bounced = [t \in RestartThreads |-> FALSE]
    /\ restarts = 0
    /\ badCalls = 0
    /\ drum = NewDrumMachine
    /\ procTrack = -1
    /\ toggleRun = <<>>

EngineNext ==
    \/ \E m \in EngineNoteArgs : Engine_noteOn(m)
    \/ \E m \in EngineNoteArgs : Engine_noteOff(m)
    \/ Engine_allNotesOff
    \/ \E e \in BOOLEAN : setWurlitzerMode(e)
    \/ onAudioReady

\* the arguments of setSynthVolume and setMetronomeVolume, in tenths (12 and
\* 25 are clamped)
SynthVolumeArgs == {0, 12}
MetronomeVolumeArgs == {25}

\* the argument of setDrumBPM: at 70 BPM a beat is not a whole number of
\* frames, in the model as at 48000 Hz (at the default 100 BPM it is)
DrumBPMArgs == {70}

\* the arguments of setDrumBPM around the two clamps: below 60, inside
\* [60, 200], above 200
TempoArgs == {40, 130, 250}

\* a tempo is set, before or while track 0 is recorded
TempoNext ==
    \/ \E b \in TempoArgs : setDrumBPM(b)
    \/ looperStartRecordingTrack(0)
    \/ onAudioReady

\* the drum machine switched on and off and playback started, before, while
\* and after track 0 is recorded
DrumsNext ==
    \/ \E e \in BOOLEAN : setDrumEnabled(e)
    \/ looperStartRecordingTrack(0)
    \/ looperStartPlayback
    \/ onAudioReady

\* recording with the metronome: tempo changes, record, clear, and frames
MetronomeNext ==
    \/ \E b \in DrumBPMArgs : setDrumBPM(b)
    \/ looperStartRecordingTrack(0)
    \/ looperClearAllTracks
    \/ onAudioReady

\* the indices given to the looper and to the drum machine: one below the
\* range, one inside, one above
IndexTrackArgs == {-1, 0, MAX_TRACKS}
InstrumentArgs == {-1, SNARE, NUM_INSTRUMENTS}
StepArgs == {-1, 0, NUM_STEPS}
VelocityArgs == {50}

\* the looper and the drum machine under calls with valid and invalid indices
IndexNext ==
    \/ \E t \in IndexTrackArgs : startRecordingTrack(t)
    \/ \E t \in IndexTrackArgs : clearTrack(t)
    \/ \E t \in IndexTrackArgs, v \in TrackVolumeArgs : setTrackVolume(t, v)
    \/ \E t \in IndexTrackArgs : setTrackMuted(t, TRUE)
    \/ \E t \in IndexTrackArgs : setTrackSolo(t, TRUE)
    \/ process
    \/ \E i \in InstrumentArgs, k \in StepArgs, v \in VelocityArgs : setDrumStep(i, k, v)
    \/ \E i \in InstrumentArgs, k \in StepArgs : toggleDrumStep(i, k)
    \/ \E i \in InstrumentArgs, v \in VelocityArgs : setDrumInstrumentVolume(i, v)

\* the callback frame by frame against the setters of the values it reads
SnapshotNext ==
    \/ \E e \in BOOLEAN : setWurlitzerMode(e)
    \/ \E v \in SynthVolumeArgs : setSynthVolume(v)
    \/ \E v \in MetronomeVolumeArgs : setMetronomeVolume(v)
    \/ Callback_begin
    \/ Callback_frame
    \/ Callback_return

\* the callback frame by frame with drums, metronome and the recording of a
\* track
ClipNext ==
    \/ \E v \in MetronomeVolumeArgs : setMetronomeVolume(v)
    \/ \E e \in BOOLEAN : setDrumEnabled(e)
    \/ looperStartRecordingTrack(0)
    \/ Callback_begin
    \/ Callback_frame
    \/ Callback_return

(***************************************************************************)
(* Specifications                                                          *)
(***************************************************************************)
Init == LooperInit /\ PolyInit /\ WurliInit /\ EngineInit /\ VoiceInit

\* the looper under its commands and callback frames
SpecLooper == Init /\ [][LooperNext]_vars

\* the PolyphonyManager under its commands and callback frames
SpecPoly == Init /\ [][PolyNext]_vars

\* the note commands in both modes against the rendering of the voices
RetriggerNext ==
    \/ \E m \in NoteArgs : noteOn(m)
    \/ \E m \in NoteArgs : noteOff(m)
    \/ \E e \in BOOLEAN : setUnisonEnabled(e)
    \/ nextSample

SpecRetrigger == Init /\ [][RetriggerNext]_vars

\* allocation in both modes: the notes, the unison switch and the number of
\* unison slots against the rendering of the voices
AllocateNext ==
    \/ \E m \in NoteArgs : noteOn(m)
    \/ \E m \in NoteArgs : noteOff(m)
    \/ \E e \in BOOLEAN : setUnisonEnabled(e)
    \/ \E c \in UnisonVoicesArgs : setUnisonVoices(c)
    \/ nextSample

SpecAllocate == Init /\ [][AllocateNext]_vars

\* the AudioEngine: notes routed to the two backends, mode switches, frames
SpecEngine == Init /\ [][EngineNext]_vars

\* the callback of the AudioEngine frame by frame against its setters
SpecParams == Init /\ [][ParamsNext]_vars

SpecRestart == Init /\ [][RestartNext]_vars

SpecMetronome == Init /\ [][MetronomeNext]_vars

SpecDrums == Init /\ [][DrumsNext]_vars

SpecTempo == Init /\ [][TempoNext]_vars

SpecComplete == Init /\ [][CompleteNext]_vars

\* --- the callback against the control thread.  AudioEngine::onAudioReady
\* --- takes no mutex (AudioEngine.cpp:696-841), so a looper command of the
\* --- control thread can run between any two statements of Looper::process.
\* --- One frame in PLAYING is taken in two steps, for one track of the mixing
\* --- loop: the bounds check of Looper.cpp:333, then the reads of 334-335
\* --- and the rest of the frame.
notRaceVars == <<polyVars, wurliVars, engineVars, voiceVars, paramVars, restartVars,
                 badCalls, wurliUnitVars, drumUnitVars, deskVars>>

\* the callback is not between a bounds check and its access
AtFrameStart == procTrack = -1

\* Looper.cpp:328-333: track i is mixed and mPlaybackPosition is below the
\* size of its bufferL
process_check(i) ==
    /\ Running
    /\ AtFrameStart
    /\ mState = "PLAYING"
    /\ Audible(i, -1)
    /\ mPlaybackPosition < Len(mTracks[i].bufferL)
    /\ procTrack' = i
    /\ UNCHANGED <<looperVars, looperIO, history>>
    /\ UNCHANGED notRaceVars

\* Looper.cpp:334-346: bufferL[mPlaybackPosition] and
\* bufferR[mPlaybackPosition] of that track are read, as the vectors are now,
\* and the frame is completed; a read past the end of a vector is undefined
\* behaviour, recorded in mem
process_access ==
    /\ Running
    /\ procTrack # -1
    /\ procTrack' = -1
    /\ IF /\ mPlaybackPosition < Len(mTracks[procTrack].bufferL)
          /\ mPlaybackPosition < Len(mTracks[procTrack].bufferR)
       THEN PlayingBody /\ Frame
       ELSE /\ mem' = "overrun"
            /\ UNCHANGED <<looperVars, loopOutL, loopOutR, synthPhase, history>>
    /\ UNCHANGED notRaceVars

\* a frame of Looper::process during which the control thread does nothing
process_whole ==
    /\ AtFrameStart
    /\ process

\* the commands of the control thread, each under the engine mutex, against
\* the frames of the callback
RaceNext ==
    \/ \E t \in MixTrackArgs : startRecordingTrack(t)
    \/ \E t \in MixTrackArgs : clearTrack(t)
    \/ clearAllTracks
    \/ startPlayback
    \/ process_whole
    \/ \E i \in MixTrackArgs : process_check(i)
    \/ process_access

SpecRace == Init /\ [][RaceNext]_vars

SpecMix == Init /\ [][MixNext]_vars

SpecIndex == Init /\ [][IndexNext]_vars

SpecSnapshot == Init /\ [][SnapshotNext]_vars

\* the callback of the AudioEngine frame by frame with every source of the mix
SpecClip == Init /\ [][ClipNext]_vars

\* one Voice under noteOn, noteOff and frames, for every envelope setting
InitSet == LooperInit /\ PolyInit /\ WurliInit /\ EngineInit /\ VoiceInitSet

SpecVoice == InitSet /\ [][VoiceNext]_vars

\* one DrumMachine under setStep and toggleStep
SpecPattern == Init /\ [][PatternNext]_vars

SpecSequencer == Init /\ [][SequencerNext]_vars

\* one WurlitzerVoice under noteOn with a velocity, noteOff and frames
SpecWurliVoice == Init /\ [][WurliVoiceNext]_vars

(***************************************************************************)
(* Looper: properties                                                      *)
(***************************************************************************)
PreCountFrames == PRE_COUNT_BEATS * mSamplesPerBeat

\* C1: loop-length lock.  Every track with hasContent has L and R buffers of
\* exactly mLoopLengthSamples samples, whatever setBPM, startRecordingTrack,
\* clearTrack, start/stopPlayback and callback frames came before (a setBPM
\* during the pre-count or the recording of the first track included).
C1_LoopLengthLock ==
    \A i \in Tracks :
        mTracks[i].hasContent =>
            /\ Len(mTracks[i].bufferL) = mLoopLengthSamples
            /\ Len(mTracks[i].bufferR) = mLoopLengthSamples

\* C2: pre-count gating.  With no other command since the accepted
\* startRecordingTrack, the looper is in pre-count during the first
\* 4*samplesPerBeat process calls and the started track holds only zeros; the
\* call that reaches 4*samplesPerBeat enters recording with record position 0
\* and still nothing written; the k-th call after it has written k samples.
\* No process call made in pre-count changes any track.
C2_Gate ==
    (since = "record" /\ calls < MaxCalls) =>
        /\ calls < PreCountFrames =>
              /\ mState = "PRE_COUNT"
              /\ mPreCountPosition = calls
              /\ mTracks[armed].bufferL = Zeros(mLoopLengthSamples)
              /\ mTracks[armed].bufferR = Zeros(mLoopLengthSamples)
        /\ calls = PreCountFrames =>
              /\ mState = "RECORDING"
              /\ mRecordPosition = 0
              /\ mActiveRecordingTrack = armed
              /\ mTracks[armed].bufferL = Zeros(mLoopLengthSamples)
              /\ mTracks[armed].bufferR = Zeros(mLoopLengthSamples)
        /\ (calls > PreCountFrames /\ mState = "RECORDING") =>
              /\ mRecordPosition = calls - PreCountFrames
              /\ \A k \in 1..Len(mTracks[armed].bufferL) :
                    (mTracks[armed].bufferL[k] # 0) <=> (k <= mRecordPosition)

C2_NoWriteInPreCount ==
    (mState = "PRE_COUNT" /\ process) => mTracks' = mTracks

C2_PreCountGating == []C2_Gate /\ [][C2_NoWriteInPreCount]_vars

\* C2 witness: the call that ends the pre-count has just been made
C2_Witness ==
    /\ since = "record"
    /\ calls = PreCountFrames
    /\ mState = "RECORDING"
    /\ mRecordPosition = 0

\* C3: recording completion.  With no other command since the accepted
\* startRecordingTrack, the started track has no content and the looper is in
\* pre-count or recording until 4*samplesPerBeat + loopLengthSamples process
\* calls were made; from that call on the looper is stopped, the track has
\* content, the loop length is locked, no track is active and the playback
\* position is 0.
C3_RecordingCompletion ==
    (since = "record" /\ calls < MaxCalls) =>
        /\ calls < PreCountFrames + mLoopLengthSamples =>
              /\ mState \in {"PRE_COUNT", "RECORDING"}
              /\ ~mTracks[armed].hasContent
              /\ mActiveRecordingTrack = armed
        /\ calls >= PreCountFrames + mLoopLengthSamples =>
              /\ mState = "STOPPED"
              /\ mTracks[armed].hasContent
              /\ mLoopLengthLocked
              /\ mActiveRecordingTrack = -1
              /\ mPlaybackPosition = 0
              /\ mRecordPosition = mLoopLengthSamples

\* C3 witness: the call that completes the recording has just been made
C3_Witness ==
    /\ since = "record"
    /\ calls = PreCountFrames + mLoopLengthSamples
    /\ mState = "STOPPED"
    /\ mTracks[armed].hasContent

\* the case of C4: playback started and left alone, track 0 the only track
\* with content, with the settings a track is constructed with
C4_Case ==
    /\ since = "play"
    /\ mState = "PLAYING"
    /\ calls \in 1..(MaxCalls - 1)
    /\ mTracks[0].hasContent
    /\ \A i \in Tracks \ {0} : ~mTracks[i].hasContent
    /\ mTracks[0].volume = DefaultVolume
    /\ ~mTracks[0].muted
    /\ ~mTracks[0].solo

\* the sample recorded at loop position k of track 0: <<L, R>>
C4_Recorded(k) == fed[0][k + 1]

C5_PlaybackPositionInRange ==
    /\ 0 <= mPlaybackPosition
    /\ mPlaybackPosition < mLoopLengthSamples

\* C5 witness: the position wrapped to 0 during the pre-count of a further
\* track, over a loop that was playing
C5_Witness ==
    /\ mState = "PRE_COUNT"
    /\ hasAnyLoop
    /\ mPreCountPosition > 0
    /\ mPlaybackPosition = 0

\* C6: playback periodicity.  While the looper plays and no command is issued
\* after startPlayback, the position after n frames is n mod loopLengthSamples:
\* 0 at frame 0 and 0 again exactly every loopLengthSamples frames.
C6_PlaybackPeriodicity ==
    (since = "play" /\ mState = "PLAYING" /\ calls < MaxCalls) =>
        mPlaybackPosition = calls % mLoopLengthSamples

\* C6 witness: the position is back at 0 for the second time
C6_Witness ==
    /\ since = "play"
    /\ mState = "PLAYING"
    /\ calls = 2 * mLoopLengthSamples
    /\ calls < MaxCalls
    /\ mPlaybackPosition = 0

\* C7: state-illegal commands are ignored.  startRecordingTrack(t) for a track
\* with content or while the looper is in pre-count or recording, and
\* clearTrack(t) for the track in pre-count or recording, change no looper
\* variable; the track being recorded is one valid track, and a frame of the
\* recording writes to no other track.
C7_Step ==
    /\ \A t \in Tracks :
          /\ ((mTracks[t].hasContent \/ mState \in {"PRE_COUNT", "RECORDING"})
                 /\ startRecordingTrack(t))
             => UNCHANGED <<looperVars, looperIO>>
          /\ ((mActiveRecordingTrack = t /\ mState \in {"PRE_COUNT", "RECORDING"})
                 /\ clearTrack(t))
             => UNCHANGED <<looperVars, looperIO>>
    /\ (mState = "RECORDING" /\ process) =>
          \A i \in Tracks \ {mActiveRecordingTrack} : mTracks'[i] = mTracks[i]

C7_OneActiveTrack ==
    mState \in {"PRE_COUNT", "RECORDING"} => mActiveRecordingTrack \in Tracks

C7_IllegalCommandsIgnored == []C7_OneActiveTrack /\ [][C7_Step]_vars

\* C7 witness: a command was rejected while track 0 was being recorded and
\* track 1 had content
C7_Witness ==
    /\ since = "ignored"
    /\ mState = "RECORDING"
    /\ mActiveRecordingTrack = 0
    /\ mTracks[1].hasContent

\* C13: loop-track buffers are allocated, resized or freed (by
\* startRecordingTrack, clearTrack, clearAllTracks) only while the looper is
\* idle or stopped: no step taken in pre-count, recording or playing changes
\* the size of a track buffer.
C13_Step ==
    (\E i \in Tracks : \/ Len(mTracks'[i].bufferL) # Len(mTracks[i].bufferL)
                        \/ Len(mTracks'[i].bufferR) # Len(mTracks[i].bufferR))
        => mState \in {"IDLE", "STOPPED"}

C13_BuffersSizedWhenIdle == [][C13_Step]_vars

\* C19: the loop output of a frame is the sum of buffer[pos] * volume over
\* exactly the tracks that have content, are not muted and, when some track
\* with content is soloed, are soloed themselves: over all tracks in playing
\* (pos the playback position), over the tracks that are not being recorded in
\* pre-count (pos the playback position) and recording (pos the record
\* position).
C19_Contributes(i) ==
    /\ mTracks[i].hasContent
    /\ ~mTracks[i].muted
    /\ \/ ~\E j \in Tracks : mTracks[j].hasContent /\ mTracks[j].solo
       \/ mTracks[i].solo

C19_Sum(pos, chan) ==
    SumOver([i \in Tracks |->
                IF C19_Contributes(i)
                   /\ (mState = "PLAYING" \/ i # mActiveRecordingTrack)
                THEN mTracks[i][chan][pos + 1] * mTracks[i].volume ELSE 0],
            Tracks)

C19_Step ==
    (synthPhase' # synthPhase /\ mState \in {"PLAYING", "PRE_COUNT", "RECORDING"}) =>
        LET pos == IF mState = "RECORDING" THEN mRecordPosition ELSE mPlaybackPosition
        IN /\ loopOutL' = C19_Sum(pos, "bufferL")
           /\ loopOutR' = C19_Sum(pos, "bufferR")

C19_SoloMuteMix == [][C19_Step]_vars

\* two tracks with content are playing, track 1 soloed at volume 0.5 and
\* track 0 not: the frame just rendered gave the sample of track 1 alone
C19_Witness ==
    /\ mState = "PLAYING"
    /\ mPlaybackPosition > 0
    /\ mTracks[0].hasContent /\ ~mTracks[0].muted /\ ~mTracks[0].solo
    /\ mTracks[1].hasContent /\ mTracks[1].solo /\ mTracks[1].volume = 5
    /\ mTracks[0].bufferL[mPlaybackPosition] # 0
    /\ loopOutL # 0
    /\ loopOutL = mTracks[1].bufferL[mPlaybackPosition] * 5

(***************************************************************************)
(* PolyphonyManager: properties                                            *)
(***************************************************************************)
\* noteOn of MAX_POLYPHONY + 1 distinct notes, 60 upwards, and nothing else
\* but frames
AllVoicesPlusOne == [k \in 1..(MAX_POLYPHONY + 1) |-> 59 + k]

\* C8: oldest-voice stealing.  With unison disabled, a noteOn(m) that finds
\* every voice non-idle and none bound to m gives m to a voice whose last
\* noteOn is the least recent (mVoiceAge holds the counter value of a voice's
\* last noteOn) and changes no other voice; after noteOn of as many distinct
\* notes as there are voices, 60 upwards, and of one more, the bound notes are
\* all of them but 60.
C8_Step ==
    \A m \in NoteArgs :
        ( /\ ~mUnisonEnabled
          /\ \A i \in Voices : isActive(mVoices[i])
          /\ \A i \in Voices : mVoices[i].mMidiNote # m
          /\ noteOn(m) )
        => \E v \in Voices :
              /\ \A u \in Voices : mVoiceAge[v] <= mVoiceAge[u]
              /\ mVoices'[v].mMidiNote = m
              /\ mVoices'[v].mState = "ACTIVE"
              /\ mVoiceAge'[v] > mVoiceAge[v]
              /\ \A u \in Voices \ {v} :
                    mVoices'[u] = mVoices[u] /\ mVoiceAge'[u] = mVoiceAge[u]

C8_Scenario ==
    played = AllVoicesPlusOne =>
        /\ \A i \in Voices : isActive(mVoices[i])
        /\ {mVoices[i].mMidiNote : i \in Voices} = 61..(60 + MAX_POLYPHONY)

C8_OldestVoiceStolen == []C8_Scenario /\ [][C8_Step]_vars

\* C8 witness: one note more than there are voices was played
C8_Witness ==
    /\ played = AllVoicesPlusOne
    /\ mVoices[0].mMidiNote = 60 + MAX_POLYPHONY

\* C9: one voice per note.  While unison is disabled no two non-idle voices
\* (active or releasing) are bound to the same MIDI note.
C9_OneVoicePerNote ==
    ~mUnisonEnabled =>
        \A i, j \in Voices :
            (i # j /\ isActive(mVoices[i]) /\ isActive(mVoices[j]))
                => mVoices[i].mMidiNote # mVoices[j].mMidiNote

\* C14: a parameter setter that returned before noteOn(m) is visible to that
\* noteOn: every voice the noteOn starts (by fresh allocation, by stealing or
\* by retrigger) is active and holds the values
\* last given to setAttack, setRelease and setFilterCutoff (the envelope times
\* as Envelope stores them, at least 1 ms).
C14_Step ==
    \A i \in Voices :
        mVoiceAge'[i] > mAgeCounter =>
            /\ mVoices'[i].mState = "ACTIVE"
            /\ mVoices'[i].mStage = "ATTACK"
            /\ mVoices'[i].mAttackTime = Max(MinEnvelopeMs, mAttack)
            /\ mVoices'[i].mReleaseTime = Max(MinEnvelopeMs, mRelease)
            /\ mVoices'[i].mFilterBaseCutoff = mFilterCutoff

CeilDiv(a, b) == (a + b - 1) \div b

\* release time + 10 ms, in callback frames
ReleaseFrames(releaseMs) ==
    CeilDiv(releaseMs * VoiceSampleRate, 1000) + CeilDiv(10 * VoiceSampleRate, 1000)

\* C10: after AudioEngine::allNotesOff with no later noteOn, every voice of
\* the PolyphonyManager and of the WurlitzerEngine is idle once release time +
\* 10 ms of callback frames have passed, and the voices contribute nothing to
\* the synth signal from then on.
C10_AllIdleAfterRelease ==
    /\ quiet >= ReleaseFrames(ReleaseMs) =>
          \A i \in Voices : ~isActive(mVoices[i])
    /\ quiet >= ReleaseFrames(WurliReleaseMs) =>
          \A i \in WVoices : ~wVoices[i].mActive
    /\ quiet >= ReleaseFrames(Max(ReleaseMs, WurliReleaseMs)) => synthLevel = 0

\* C15: at most one thread at a time is inside the stop()/start() sequence of
\* restart(); a restart() that arrives while another is in progress returns
\* without touching the stream; and mIsRestarting is false whenever no
\* restart is executing, also after a start() that failed.
InRestart == {t \in RestartThreads : restartPc[t] # "idle"}

C15_Exclusive ==
    /\ Cardinality(InRestart) <= 1
    /\ (InRestart = {}) => ~mIsRestarting

C15_BouncedStep ==
    \A t \in RestartThreads :
        (InRestart # {} /\ t \notin InRestart /\ bounced'[t] # bounced[t]) =>
            /\ bounced'[t]
            /\ restartPc'[t] = "idle"
            /\ mStream' = mStream
            /\ mIsRestarting' = mIsRestarting

C15_ArrivalStep ==
    \A t \in RestartThreads :
        (restartPc[t] = "idle" /\ restartPc'[t] # "idle") => InRestart = {}

C15_RestartExclusion == []C15_Exclusive /\ [][C15_BouncedStep /\ C15_ArrivalStep]_vars

\* a second thread was turned away, the start() of the first failed, and the
\* flag is false again
C15_Witness ==
    /\ InRestart = {}
    /\ restarts = 1
    /\ startResult = FALSE
    /\ mStream = "open"
    /\ bounced[2]
    /\ ~mIsRestarting

\* C17: after setWurlitzerMode(x) with x different from the current mode no
\* voice of either backend is held (active and not releasing);
\* setWurlitzerMode(x) with x equal to the current mode changes no voice state.
HeldIn(voices, wurli) ==
    \/ \E i \in Voices : voices[i].mState = "ACTIVE"
    \/ \E i \in WVoices : wurli[i].mActive /\ wurli[i].stage # "releasing"

C17_Calls ==
    LET switched == ModeSwitch(PolyState, WurliState, mWurlitzerMode, ~mWurlitzerMode)
        same == ModeSwitch(PolyState, WurliState, mWurlitzerMode, mWurlitzerMode)
    IN /\ ~HeldIn(switched.poly.mVoices, switched.wurli.mVoices)
       /\ same.poly = PolyState
       /\ same.wurli = WurliState

C17_Step == (mWurlitzerMode' # mWurlitzerMode) => ~HeldIn(mVoices', wVoices')

C17_ModeSwitchKillsNotes == []C17_Calls /\ [][C17_Step]_vars

\* a note held in subtractive mode, the switch to Wurlitzer mode, a note held
\* there, and the switch back: both voices are releasing, no frame has run
C17_Witness ==
    /\ ~mWurlitzerMode
    /\ mVoices[0].mState = "RELEASING"
    /\ mVoices[0].mCurrentLevel = 0
    /\ wVoices[0].mActive
    /\ wVoices[0].stage = "releasing"
    /\ wVoices[0].level = 0
    /\ quiet = -1

C16_HardClip ==
    /\ \A k \in 1..Len(output) : output[k] >= 0 - SampleOne /\ output[k] <= SampleOne
    /\ cbFrame >= 0 =>
           /\ Len(output) = 2 * FramesPerBuffer
           /\ stored = 0..(2 * cbFrame - 1)

\* a finished buffer with a sample clipped at 1 and one clipped at -1, while
\* the metronome volume is at its maximum
C16_Witness ==
    /\ cbFrame = FramesPerBuffer
    /\ stored = 0..(2 * FramesPerBuffer - 1)
    /\ mMetronomeVolume = MaxMetronomeVolume
    /\ \E k \in 1..Len(output) : output[k] = SampleOne
    /\ \E k \in 1..Len(output) : output[k] = 0 - SampleOne

\* C18: in pre-count and recording the metronome is triggered once per beat:
\* the first frame of a pre-count triggers it, and a frame ends with a trigger
\* exactly when the next frame is the first of a beat of the looper (its
\* position in the pre-count or in the recording is a multiple of
\* samplesPerBeat), so that 4 clicks start in the 4 * samplesPerBeat frames of
\* the pre-count.
C18_SingleClickPerBeat ==
    mState \in {"PRE_COUNT", "RECORDING"} =>
        IF mState = "PRE_COUNT" /\ mPreCountPosition = 0
        THEN ~metronomeWasActive
        ELSE clickNext <=>
                (IF mState = "PRE_COUNT" THEN mPreCountPosition ELSE mRecordPosition)
                    % mSamplesPerBeat = 0

\* C20: with a track index outside [0, 3], startRecordingTrack, clearTrack,
\* setTrackVolume, setTrackMuted and setTrackSolo leave the looper as it is;
\* with an instrument outside [0, 2] or a step outside [0, 15], setStep,
\* toggleStep and setInstrumentVolume leave the drum machine as it is, and
\* getStep returns 0.
C20_BadIndex(i, k) == ~isValidInstrument(i) \/ ~isValidStep(k)

C20_LooperStep ==
    \A t \in IndexTrackArgs \ Tracks :
        (\/ startRecordingTrack(t)
         \/ clearTrack(t)
         \/ \E v \in TrackVolumeArgs : setTrackVolume(t, v)
         \/ \E m \in BOOLEAN : setTrackMuted(t, m)
         \/ \E b \in BOOLEAN : setTrackSolo(t, b))
            => UNCHANGED <<looperVars, looperIO>>

C20_DrumStep ==
    /\ \A i \in InstrumentArgs, k \in StepArgs :
          (C20_BadIndex(i, k)
           /\ \/ \E v \in VelocityArgs : setDrumStep(i, k, v)
              \/ toggleDrumStep(i, k))
              => UNCHANGED mDrumMachine
    /\ \A i \in InstrumentArgs :
          (~isValidInstrument(i) /\ \E v \in VelocityArgs : setDrumInstrumentVolume(i, v))
              => UNCHANGED mDrumMachine

C20_GetStep ==
    \A i \in InstrumentArgs, k \in StepArgs :
        C20_BadIndex(i, k) => Drum_getStep(mDrumMachine, i, k) = 0

C20_InvalidIndexNoOp == []C20_GetStep /\ [][C20_LooperStep /\ C20_DrumStep]_vars

\* in a pre-count the last looper command was neither an accepted nor a
\* rejected one on track 0, whose controls are untouched, so it had an invalid
\* index; drum calls with invalid indices were made and the snare pattern holds
\* what the valid calls wrote
C20_Witness ==
    /\ mState = "PRE_COUNT"
    /\ mPreCountPosition > 0
    /\ since = "other"
    /\ mTracks[0].volume = DefaultVolume /\ ~mTracks[0].muted /\ ~mTracks[0].solo
    /\ badCalls = MaxBadCalls
    /\ mDrumMachine.mSnarePattern[0] = 50
    /\ mDrumMachine.mSnareVolume = 50

\* C12: parameter snapshot.  Within one onAudioReady call every frame is
\* rendered with the same mode flag, synth volume and metronome volume: a
\* setWurlitzerMode, setSynthVolume or setMetronomeVolume that runs while the
\* call is in progress takes effect only with the next buffer.
C12_ParameterSnapshot ==
    \A i, j \in 1..Len(used) : used[i] = used[j]

(***************************************************************************)
(* WurlitzerVoice: properties                                              *)
(***************************************************************************)
\* what a noteOn at a velocity inside [0, 1] sets up
C21_SetupOf(velocity) ==
    setupEnvelopes(NewWurlitzerVoice, velocity)

C21_SetupFields == {"attackTime", "decayTime", "barkDecay", "harmonicDecay",
                    "tineDecay", "mBarkIntensity", "mFundamentalLevel",
                    "mSecondHarmonicLevel", "mThirdHarmonicLevel"}

\* C21: out-of-range velocity is clamped.  After noteOn(m, f, v) the voice has
\* the envelope times, the bark intensity and the harmonic levels of
\* noteOn(m, f, clamp(v, 0, 1)); the amp attack is within 8..20 ms and the amp
\* decay within 2.0..3.5 s for every v.
C21_VelocityClamped ==
    wGiven # <<>> =>
        /\ \A f \in C21_SetupFields :
               wurliVoice[f] = C21_SetupOf(ClampVelocity(wGiven[1]))[f]
        /\ wurliVoice.attackTime >= 80 /\ wurliVoice.attackTime <= 200
        /\ wurliVoice.decayTime >= 20000 /\ wurliVoice.decayTime <= 35000

\* the same for the velocities inside [0, 1] only, which is what the code does
C21_InRangeVelocity ==
    (wGiven # <<>> /\ wGiven[1] = ClampVelocity(wGiven[1])) =>
        /\ \A f \in C21_SetupFields : wurliVoice[f] = C21_SetupOf(wGiven[1])[f]
        /\ wurliVoice.attackTime >= 80 /\ wurliVoice.attackTime <= 200
        /\ wurliVoice.decayTime >= 20000 /\ wurliVoice.decayTime <= 35000

(***************************************************************************)
(* DrumMachine: properties                                                 *)
(***************************************************************************)
\* std::max(0.0f, std::min(1.0f, v)) of a velocity in hundredths
C22_Clamp(v) == IF v < 0 THEN 0 ELSE IF v > DrumOne THEN DrumOne ELSE v

C22_Step ==
    \A i \in Instruments, k \in PatternStepArgs, v \in PatternVelocityArgs :
        DrumMachine_setStep(i, k, v) =>
            /\ Drum_getStep(drum', i, k) = C22_Clamp(v)
            /\ \A i2 \in Instruments, k2 \in Steps :
                   <<i2, k2>> # <<i, k>> =>
                       Drum_getStep(drum', i2, k2) = Drum_getStep(drum, i2, k2)

\* C22: drum step round trip.  For every instrument i, step s in [0, 15] and
\* velocity v, after setStep(i, s, v) getStep(i, s) is clamp(v, 0, 1) and
\* getStep of every other instrument and step is what it was.
C22_StepRoundTrip == [][C22_Step]_vars

\* setStep(HIHAT, 15, 1.5) and setStep(SNARE, 0, 0.5) have been called on the
\* default pattern
C22_Witness ==
    /\ toggleRun = <<>>
    /\ Drum_getStep(drum, HIHAT, NUM_STEPS - 1) = DrumOne
    /\ Drum_getStep(drum, SNARE, 0) = 50
    /\ drum.mKickPattern = DefaultKickPattern

\* C23: toggleStep involution.  For a valid instrument and step, after one
\* toggleStep of a step whose velocity was strictly between 0 and 1 the
\* velocity is 0; after two consecutive toggleStep calls the velocity is the
\* prior one when that was 0 or 1, and 1.0 when it was strictly between.
C23_ToggleInvolution ==
    toggleRun # <<>> =>
        LET now == Drum_getStep(drum, toggleRun[1], toggleRun[2])
            prior == toggleRun[3]
        IN /\ (toggleRun[4] = 1 /\ prior > 0 /\ prior < DrumOne) => now = 0
           /\ toggleRun[4] = 2 =>
                  now = IF prior \in {0, DrumOne} THEN prior ELSE DrumOne

\* the hi-hat's last step, 0.45 by default, has been toggled twice
C23_Witness ==
    /\ toggleRun = <<HIHAT, NUM_STEPS - 1, 45, 2>>
    /\ Drum_getStep(drum, HIHAT, NUM_STEPS - 1) = DrumOne

\* after setDrumBPM(b) the drum machine has the tempo clamp(b, 60, 200) and a
\* sixteenth of Fs*60 / (4*clamp(b, 60, 200)) frames within one frame
C24_DrumStep ==
    \A b \in TempoArgs :
        setDrumBPM(b) =>
            LET c == IF b < DrumMinBPM THEN DrumMinBPM
                     ELSE IF b > DrumMaxBPM THEN DrumMaxBPM ELSE b
                d == mDrumMachine'.mSamplesPerSixteenth * c
                       - 15 * DrumSampleRate * TempoScale
            IN /\ mDrumMachine'.mBPM = c
               /\ d <= TempoScale * c /\ 0 - d <= TempoScale * c

\* after setDrumBPM(b) the looper's samples per beat are those of the tempo
\* clamp(b, 60, 200)
C24_LooperStep ==
    \A b \in TempoArgs :
        setDrumBPM(b) =>
            LET c == IF b < DrumMinBPM THEN DrumMinBPM
                     ELSE IF b > DrumMaxBPM THEN DrumMaxBPM ELSE b
            IN mSamplesPerBeat' = (60 * LooperSampleRate) \div c

\* the drum machine's half of C24
C24_DrumClamp == [][C24_DrumStep]_vars

\* C24: BPM clamp.  After setBPM(b) on the drum machine getBPM() is
\* clamp(b, 60, 200) and samplesPerSixteenth is Fs*60 / (4*clamp(b, 60, 200))
\* within one sample; after AudioEngine::setDrumBPM(b) the looper's samples
\* per beat are derived from that same clamped tempo.
C24_BPMClamp == [][C24_DrumStep /\ C24_LooperStep]_vars

(***************************************************************************)
(* Looper: the track being recorded                                        *)
(***************************************************************************)
\* C25: active-recording-track invariant.  In every reachable looper state
\* the active recording track index is in [0, 3] if and only if the state is
\* pre-count or recording, and it is -1 in idle, stopped and playing, whatever
\* startRecordingTrack, clearTrack (of any track), clearAllTracks,
\* start/stopPlayback and callback frames came before.
C25_ActiveRecordingTrack ==
    /\ mActiveRecordingTrack \in Tracks <=> mState \in {"PRE_COUNT", "RECORDING"}
    /\ mState \in {"IDLE", "STOPPED", "PLAYING"} => mActiveRecordingTrack = -1

\* the callback frames made since the startRecordingTrack that started the
\* recording in progress: the pre-count and the record position count them
C26_Elapsed ==
    IF mState = "PRE_COUNT" THEN mPreCountPosition
    ELSE PRE_COUNT_BEATS * mSamplesPerBeat + mRecordPosition

\* a step made while track mActiveRecordingTrack is in pre-count or recording,
\* when there is neither setBPM nor clearAllTracks: a callback frame is the
\* next of the 4*samplesPerBeat + loopLengthSamples frames and the last of
\* them gives the track its content; a command leaves the recording as it is.
\* `others` says which steps are looked at besides the callback frames.
C26_StepOf(others) ==
    LET t == mActiveRecordingTrack
        recording(st) == st \in {"PRE_COUNT", "RECORDING"}
        frame == synthPhase' # synthPhase
        total == PRE_COUNT_BEATS * mSamplesPerBeat + mLoopLengthSamples
    IN (/\ recording(mState) /\ mem' = "ok"
        /\ frame \/ others)
       => IF frame
          THEN IF C26_Elapsed + 1 >= total
               THEN mTracks'[t].hasContent /\ C26_Elapsed + 1 = total
               ELSE /\ recording(mState') /\ mActiveRecordingTrack' = t
                    /\ C26_Elapsed' = C26_Elapsed + 1
                    /\ ~mTracks'[t].hasContent
          ELSE /\ recording(mState') /\ mActiveRecordingTrack' = t
               /\ C26_Elapsed' = C26_Elapsed
               /\ mTracks'[t].bufferL = mTracks[t].bufferL
               /\ mTracks'[t].bufferR = mTracks[t].bufferR
               /\ ~mTracks'[t].hasContent
               /\ UNCHANGED <<mSamplesPerBeat, mLoopLengthSamples>>

\* C26: a started recording completes.  Once startRecordingTrack(t) is
\* accepted, with no clearAllTracks and no change of the BPM, track t has
\* content after exactly 4*samplesPerBeat + loopLengthSamples further callback
\* frames, whatever clearTrack(u) for u # t, startPlayback and stopPlayback
\* calls come between them.
C26_RecordingCompletes == [][C26_StepOf(TRUE)]_vars

\* the same when no clearTrack comes between the frames
C26_UndisturbedCompletes ==
    [][C26_StepOf(~(\E u \in MixTrackArgs : clearTrack(u)))]_vars

\* C27: record writes stay in bounds.  During recording every sample write
\* lands at an index strictly below the allocated length of the active
\* track's buffers, whatever setBPM / setDrumBPM calls were made before or
\* during the pre-count and the recording of that track: no write has gone
\* past the end, and the write of the next callback frame will not.
C27_RecordWritesInBounds ==
    /\ mem = "ok"
    /\ (/\ mState = "RECORDING"
        /\ isValidTrackIndex(mActiveRecordingTrack)
        /\ mRecordPosition < mLoopLengthSamples)
       => /\ mRecordPosition < Len(mTracks[mActiveRecordingTrack].bufferL)
          /\ mRecordPosition < Len(mTracks[mActiveRecordingTrack].bufferR)

\* C28: callback/control isolation on track buffers.  Under any interleaving
\* of the looper commands of the control thread (clearTrack, clearAllTracks,
\* startRecordingTrack) with a running callback, Looper::process reads and
\* writes a track buffer only at an index below the buffer's current size:
\* no read has gone past the end, and the read that a passed bounds check
\* guards is still inside both vectors.
C28_CallbackIsolation ==
    /\ mem = "ok"
    /\ procTrack # -1 =>
          /\ mPlaybackPosition < Len(mTracks[procTrack].bufferL)
          /\ mPlaybackPosition < Len(mTracks[procTrack].bufferR)

\* C29: state/content consistency.  In every reachable looper state, (a) the
\* state is stopped or playing only if at least one track has content, (b)
\* in state idle no track has content, and (c) mLoopLengthLocked is true
\* exactly when at least one track has content.
C29_AnyContent == \E i \in Tracks : mTracks[i].hasContent

C29_StateContentConsistency ==
    /\ mState \in {"STOPPED", "PLAYING"} => C29_AnyContent
    /\ mState = "IDLE" => ~C29_AnyContent
    /\ mLoopLengthLocked <=> C29_AnyContent

\* one track keeps the loop while another is empty: the looper is stopped,
\* the length is locked, track 0 has no content and track 1 has
C29_Witness ==
    /\ mState = "STOPPED"
    /\ mLoopLengthLocked
    /\ ~mTracks[0].hasContent
    /\ mTracks[1].hasContent
    /\ Len(mTracks[0].bufferL) = 0

\* C30: retrigger does not allocate.  In non-unison mode, noteOn(m) while some
\* non-idle voice (active or releasing) is bound to m re-gates such a voice
\* (it is ACTIVE, in the attack stage, bound to m) and gives it the next age;
\* the set of non-idle voices is unchanged and so are every other voice, its
\* note and its age.
C30_Bound(i, m) == mVoices[i].mMidiNote = m /\ mVoices[i].mState # "IDLE"

C30_NonIdle(voices) == {k \in Voices : voices[k].mState # "IDLE"}

C30_Step ==
    \A m \in NoteArgs :
        (/\ noteOn(m)
         /\ ~mUnisonEnabled
         /\ \E i \in Voices : C30_Bound(i, m))
        => /\ \E i \in Voices :
                /\ C30_Bound(i, m)
                /\ mVoices'[i] = [mVoices[i] EXCEPT !.mState = "ACTIVE",
                                                     !.mStage = "ATTACK"]
                /\ mVoiceAge'[i] = mAgeCounter + 1
                /\ \A j \in Voices \ {i} :
                      /\ mVoices'[j] = mVoices[j]
                      /\ mVoiceAge'[j] = mVoiceAge[j]
           /\ mAgeCounter' = mAgeCounter + 1
           /\ C30_NonIdle(mVoices') = C30_NonIdle(mVoices)

C30_RetriggerDoesNotAllocate == [][C30_Step]_vars

\* notes 60, 61 and 60 again were played in non-unison mode: the second
\* noteOn(60) retriggered voice 0, which has the newest age, and the third
\* voice is still idle
C30_Witness ==
    /\ played = <<60, 61, 60>>
    /\ ~mUnisonEnabled
    /\ mVoices[0].mMidiNote = 60
    /\ mVoices[0].mState = "ACTIVE"
    /\ mVoiceAge[0] = 3
    /\ mAgeCounter = 3
    /\ mVoices[1].mMidiNote = 61
    /\ mVoices[2].mState = "IDLE"

\* --- C31: what noteOn(m) does to the voice table of a reachable state ---
\* the voices that are idle when noteOn is called
C31_Idle == {i \in Voices : mVoices[i].mState = "IDLE"}

\* the manager after noteOn(m)
C31_After(m) == Poly_noteOn(PolyState, mUnisonEnabled, mUnisonVoices, m)

\* noteOn(m) finds no non-idle voice bound to m and allocates
C31_Allocates(m) ==
    ~\E i \in Voices : mVoices[i].mMidiNote = m /\ mVoices[i].mState # "IDLE"

\* the non-idle voices that noteOn(m) binds to another note
C31_Reassigned(m) ==
    {i \in Voices \ C31_Idle : C31_After(m).mVoices[i].mMidiNote # mVoices[i].mMidiNote}

\* the idle voices that noteOn(m) starts
C31_Started(m) ==
    {i \in C31_Idle : /\ C31_After(m).mVoices[i].mState = "ACTIVE"
                      /\ C31_After(m).mVoices[i].mMidiNote = m}

C31_LowestIdleStarted(m) ==
    (C31_Allocates(m) /\ C31_Idle # {})
    => \E f \in C31_Started(m) : \A j \in C31_Idle : f <= j

C31_StealOnlyWhenExhausted ==
    \A m \in NoteArgs :
        /\ C31_Reassigned(m) # {} => C31_Started(m) = C31_Idle
        /\ C31_LowestIdleStarted(m)
        /\ \A j \in C31_Started(m) : \A k \in C31_Idle : k < j => k \in C31_Started(m)

\* --- C32: the ages that noteOn(m) hands out in a reachable state ---
\* one new age for each voice that noteOn(m) starts or retriggers, and no
\* other age changes
C32_NoteOnBumps(m) ==
    LET q == Poly_noteOn(PolyState, mUnisonEnabled, mUnisonVoices, m)
        assigned == {i \in Voices : /\ q.mVoices[i].mMidiNote = m
                                    /\ q.mVoices[i].mState = "ACTIVE"
                                    /\ q.mVoices[i].mStage = "ATTACK"
                                    /\ q.mVoiceAge[i] # mVoiceAge[i]}
    IN /\ assigned # {}
       /\ q.mAgeCounter = mAgeCounter + Cardinality(assigned)
       /\ {q.mVoiceAge[i] : i \in assigned} = (mAgeCounter + 1)..q.mAgeCounter
       /\ \A i \in Voices \ assigned : q.mVoiceAge[i] = mVoiceAge[i]

C32_Ages ==
    /\ \A i, j \in Voices :
          (i # j /\ mVoices[i].mState # "IDLE" /\ mVoices[j].mState # "IDLE")
          => mVoiceAge[i] # mVoiceAge[j]
    /\ \A i \in Voices : mVoices[i].mState # "IDLE" => mVoiceAge[i] <= mAgeCounter
    /\ \A m \in NoteArgs : C32_NoteOnBumps(m)

C32_Monotone == mAgeCounter' >= mAgeCounter

\* C32: age bookkeeping.  The age counter never decreases and grows by
\* exactly 1 for every voice that a noteOn assigns or reassigns; in every
\* reachable state any two non-idle voices have different last-assignment
\* ages, each at most the current value of the counter.
C32_AgeBookkeeping == []C32_Ages /\ [][C32_Monotone]_vars

\* in unison mode with two slots, note 60 was allocated and then retriggered:
\* voices 0 and 1 hold it with the ages 3 and 4 of the retrigger, the counter
\* is 4 and voice 2 was never used
C32_Witness ==
    /\ mUnisonEnabled
    /\ mUnisonVoices = 2
    /\ mAgeCounter = 4
    /\ mVoiceAge = [i \in Voices |-> IF i = 0 THEN 3 ELSE IF i = 1 THEN 4 ELSE 0]
    /\ \A i \in {0, 1} : mVoices[i].mMidiNote = 60 /\ mVoices[i].mState = "ACTIVE"
    /\ mVoices[2].mState = "IDLE"

\* C33: no stuck notes.  After any sequence of noteOn, noteOff,
\* setUnisonEnabled, setUnisonVoices and callback frames, immediately after
\* noteOff(m) no voice bound to m is in the ACTIVE (held) state; in unison
\* mode this covers every slot allocated for m.
C33_NoStuckNotes ==
    \A m \in NoteArgs :
        LET q == Poly_noteOff(PolyState, mUnisonEnabled, m)
        IN \A i \in Voices :
              q.mVoices[i].mMidiNote = m => q.mVoices[i].mState # "ACTIVE"

\* in unison mode with two slots, notes 60 and 61 were played and 61 was let
\* go: its two slots, voices 0 and 2, are releasing and voice 1 still holds 60
C33_Witness ==
    /\ mUnisonEnabled
    /\ \A i \in {0, 2} : mVoices[i].mMidiNote = 61 /\ mVoices[i].mState = "RELEASING"
    /\ mUnisonNoteVoices[0] = -1
    /\ mUnisonNoteVoices[2] = -1
    /\ mVoices[1].mMidiNote = 60
    /\ mVoices[1].mState = "ACTIVE"

\* C34: no detune outside unison.  Whenever unison is disabled, every voice
\* started or retriggered by noteOn plays with a detune of 0 cents, for any
\* earlier sequence of unison enable/disable, noteOn and noteOff calls.
C34_NoDetuneOutsideUnison ==
    ~mUnisonEnabled =>
        \A m \in NoteArgs :
            LET q == Poly_noteOn(PolyState, mUnisonEnabled, mUnisonVoices, m)
            IN \A i \in Voices :
                  (/\ q.mVoiceAge[i] # mVoiceAge[i]
                   /\ q.mVoices[i].mMidiNote = m
                   /\ q.mVoices[i].mState = "ACTIVE")
                  => q.mVoices[i].mDetune = 0

\* what holds: a voice that noteOn allocates outside unison, no voice being
\* bound to the note, plays without detune
C34_AllocatedWithoutDetune ==
    ~mUnisonEnabled =>
        \A m \in NoteArgs :
            LET q == Poly_noteOn(PolyState, mUnisonEnabled, mUnisonVoices, m)
            IN (~\E j \in Voices : mVoices[j].mMidiNote = m /\ mVoices[j].mState # "IDLE")
               => \A i \in Voices :
                     q.mVoiceAge[i] # mVoiceAge[i] => q.mVoices[i].mDetune = 0

\* C35: envelope stage machine.  The only stage changes that
\* Envelope::nextSample makes are attack -> decay, decay -> sustain and
\* release -> idle; gate(true) moves any stage to attack and keeps the level;
\* gate(false) moves any non-idle stage to release and leaves idle as idle;
\* after every nextSample the level is in [0, 1], and it is 0 when the stage
\* is then idle.
C35_StageChanges ==
    {<<"ATTACK", "DECAY">>, <<"DECAY", "SUSTAIN">>, <<"RELEASE", "IDLE">>}

C35_EnvelopeStageMachine ==
    LET next == Envelope_nextSample(voice)
        on == Envelope_gate(voice, TRUE)
        off == Envelope_gate(voice, FALSE)
    IN /\ next.mStage # voice.mStage => <<voice.mStage, next.mStage>> \in C35_StageChanges
       /\ next.mCurrentLevel \in 0..EnvOne
       /\ next.mStage = "IDLE" => next.mCurrentLevel = 0
       /\ on.mStage = "ATTACK"
       /\ on.mCurrentLevel = voice.mCurrentLevel
       /\ off.mStage = (IF voice.mStage = "IDLE" THEN "IDLE" ELSE "RELEASE")
       /\ off.mCurrentLevel = voice.mCurrentLevel

\* a note was held for longer than attack, decay and release together, let
\* go, and its release has run out: the envelope is back in idle at level 0
C35_Witness ==
    /\ heldLong
    /\ released > 0
    /\ voice.mStage = "IDLE"
    /\ voice.mCurrentLevel = 0
    /\ voice.mState = "IDLE"

\* C36: sequencer counter invariant.  After every DrumMachine::nextSample
\* call with the sequencer enabled, 0 <= mSampleCounter < mSamplesPerSixteenth
\* and the step index is in [0, 15], for any interleaving of setBPM,
\* setEnabled and resetBeat with the frames.
C36_Step ==
    (DrumMachine_nextSample /\ drum.mEnabled)
    => /\ 0 <= drum'.mSampleCounter
       /\ drum'.mSampleCounter < drum'.mSamplesPerSixteenth
       /\ drum'.mCurrentSixteenth \in 0..(NUM_STEPS - 1)

C36_SequencerCounter == [][C36_Step]_vars

\* what holds: the step index stays in [0, 15] and the counter is never
\* negative
C36_StepInRange ==
    /\ drum.mCurrentSixteenth \in 0..(NUM_STEPS - 1)
    /\ drum.mSampleCounter >= 0

\* C37: drums are silent while recording.  While the looper is in pre-count
\* or recording, no kick, snare or hi-hat pattern step is triggered on the
\* drum synth and no callback frame advances the drum sequencer, whatever
\* command is issued in those states, setDrumEnabled(true) and
\* looperStartPlayback included.
C37_NoPatternStep == struck = {}

C37_FrameStep ==
    (onAudioReady /\ mState' \in {"PRE_COUNT", "RECORDING"})
    => mDrumMachine' = mDrumMachine

C37_DrumsSilentWhileRecording == []C37_NoPatternStep /\ [][C37_FrameStep]_vars

\* what holds: no callback frame advances the sequencer while the looper is
\* in pre-count or recording
C37_SequencerHeld == [][C37_FrameStep]_vars

\* the callback frame that is the first of a pre-count
C38_FirstPreCountFrame ==
    onAudioReady /\ mState = "PRE_COUNT" /\ mPreCountPosition = 0

C38_Step ==
    C38_FirstPreCountFrame
    => /\ ~metronomeWasActive
       /\ metroBeat' = 0
       /\ metroSampleCounter' = TempoScale
       /\ metroSamplesPerBeat' = MetroSamplesPerBeatOf(mDrumMachine.mBPM)

\* C38: metronome re-sync on every pre-count.  The first callback frame of
\* every pre-count finds the metronome not yet started, so that it triggers a
\* click and restarts the beat counter and the sample counter from 0 (after
\* the frame the beat is 0 and one frame has been counted), also when the
\* previous pre-count or recording was ended by clearAllTracks and the new
\* recording was started before the next callback frame.
C38_MetronomeResync == [][C38_Step]_vars

\* what holds: the first frame of a pre-count restarts the metronome when the
\* frame before it found the looper outside pre-count and recording
C38_ResyncAfterQuietFrame ==
    [][(C38_FirstPreCountFrame /\ ~metronomeWasActive)
       => /\ metroBeat' = 0
          /\ metroSampleCounter' = TempoScale
          /\ metroSamplesPerBeat' = MetroSamplesPerBeatOf(mDrumMachine.mBPM)]_vars

\* the beat counter between callback frames is in [0, 3]: this much holds
C39_BeatInRange == mCurrentBeat \in 0..(BEATS_PER_BAR - 1)

\* the bar counter between callback frames is below the bars of a loop: this
\* holds as long as the BPM is not changed
C39_BarInRange == mCurrentBar \in 0..(BARS_TO_RECORD - 1)

\* C39: beat/bar counter range.  In every reachable state the counters that
\* the UI reads between callback frames satisfy 0 <= currentBeat < 4 and
\* 0 <= currentBar < barsPerLoop, and so does every beat that a callback frame
\* passes to the state callback, also after BPM changes made while the loop
\* length is locked.
C39_BeatBarRange ==
    /\ C39_BeatInRange
    /\ C39_BarInRange
    /\ \A b \in PreCountNotified : b \in 0..(BEATS_PER_BAR - 1)

=============================================================================
